---- MODULE Spec2Model ----
(***************************************************************************)
(* Model of the workflow-run monitoring and file-extraction logic of the   *)
(* CLI API client (cli/src/api-client.ts): streamInitializeProject (run    *)
(* initiation, SSE stream loop), monitorWorkflowStatus (poll loop) and     *)
(* extractProjectFiles / writeFilesToDirectory (reconciler).               *)
(***************************************************************************)
EXTENDS Integers, Sequences, FiniteSets, TLC

\* ------------------------------------------------------------------ bounds
MaxFrames == 1          \* whole frames the server sends in a stream session
MaxPieces == 2          \* pieces a chunked payload is built from
MaxCuts == 1            \* places where a payload is cut into chunks
MaxRetriesOpt == 2      \* largest explicit maxRetries option tried
MaxPolls == 4           \* poll requests a session may issue when called on its own
MaxStreamPolls == 3     \* poll requests of the backup session of streamInitializeProject
MaxTicks == 1           \* file-check timer callbacks that may be awaiting their request
MaxListLen == 2         \* length of a files list in a run record

\* ------------------------------------------------------- program constants
DefaultMaxRetries == 3

VARIABLES
  mode,               \* "stream": streamInitializeProject; "monitor": monitorWorkflowStatus
                      \* called on its own; "chunks": stream loop alone; "files": reconciler alone
  pc,                 \* position of streamInitializeProject
  result,             \* what streamInitializeProject returned: "none", "success", "failure"
  reader,             \* "null", "open"
  wire,               \* "chunks" mode: the chunks still to be delivered on the stream
  buffer, fullText, generatedFiles, currentStep, workflowComplete,
  spc,                \* position inside the stream loop
  pendingStep,        \* stepId whose output the stream loop is awaiting
  timerOn,            \* fileCheckInterval is set and not cleared
  ticking,            \* file-check callbacks awaiting checkForFiles
  parsed,             \* history: events JSON.parse returned, in order
  maxRetries, stopOnCompletion,
  isMonitoring, consecutiveErrors, hasExtractedFiles,
  ppc,                \* position of the poll function
  workflowData,       \* response.data of the poll being handled
  nPolls,             \* history: poll requests issued
  passes,             \* history: top-level reconciliation calls started by the poll session
  stopCalled,         \* history: the stop handle was invoked
  inFlightAtStop,     \* history: a poll request was in flight when stop was invoked
  succeeded,          \* history: steps recorded with status success
  termSeen,           \* history: channels that handled a terminal status
  scaffoldSeen,       \* history: channels that handled a scaffold success
  notes,              \* callbacks made by the last step (onProgress / onUpdate)
  inputs,             \* events / snapshots handled by the last step
  reqs,               \* network requests issued by the last step
  dest,               \* the destination directory (outputDir)
  local,              \* the local file system the fallback searches
  runData,            \* "files" mode: the run record the reconciler receives
  api,                \* "files" mode: what the server answers to /health and runs/list
  attempts,           \* "files" mode: the strategies the last reconciler call went through
  dest0,              \* history: outputDir before the reconciler ran
  payload,            \* history: the characters the server put on the stream
  runOutcome,         \* history: how the createRun request ended
  endCause            \* history: why the poll session ended

vars == <<mode, pc, result, reader, wire, buffer, fullText, generatedFiles,
          currentStep, workflowComplete, spc, pendingStep, timerOn, ticking,
          parsed, maxRetries, stopOnCompletion, isMonitoring, consecutiveErrors,
          hasExtractedFiles, ppc, workflowData, nPolls, passes, stopCalled,
          inFlightAtStop, succeeded, termSeen, scaffoldSeen, notes, inputs,
          reqs, dest, local, runData, api, attempts, dest0, payload, runOutcome, endCause>>

streamVars == <<reader, wire, buffer, fullText, generatedFiles, currentStep,
                workflowComplete, spc, pendingStep, timerOn, ticking, parsed>>
pollVars == <<isMonitoring, consecutiveErrors, hasExtractedFiles, ppc,
              workflowData, nPolls, passes, stopCalled, inFlightAtStop, dest,
              endCause>>

\* ----------------------------------------------------------- text helpers
NL == "\n"
SP == " "
IsSpace(c) == c = NL \/ c = SP

\* String.prototype.indexOf("\n\n"), 0-based, -1 when absent
IndexOf(buf) ==
  LET hits == {i \in 1..(Len(buf) - 1) : buf[i] = NL /\ buf[i + 1] = NL}
  IN IF hits = {} THEN -1
     ELSE (CHOOSE i \in hits : \A j \in hits : i <= j) - 1

\* String.prototype.slice(a, b) and slice(a), 0-based
Slice(s, a, b) == SubSeq(s, a + 1, b)
SliceFrom(s, a) == SubSeq(s, a + 1, Len(s))

\* String.prototype.trim()
Trim(s) ==
  LET keep == {i \in 1..Len(s) : ~IsSpace(s[i])}
  IN IF keep = {} THEN <<>>
     ELSE SubSeq(s, CHOOSE i \in keep : \A j \in keep : i <= j,
                    CHOOSE i \in keep : \A j \in keep : i >= j)

StartsWith(s, p) == Len(s) >= Len(p) /\ SubSeq(s, 1, Len(p)) = p

DataPrefix == <<"d", "a", "t", "a", ":", " ">>

\* ------------------------------------------------------------ stream frames
\* The JSON text of a frame is written "{" k "}", k naming the object.
NoStep == "-"
Decode ==
  [k \in {"r", "s", "f", "q", "p", "c", "x", "u"} |->
     CASE k = "r" -> [type |-> "step", stepId |-> "scaffoldProject", status |-> "running"]
       [] k = "s" -> [type |-> "step", stepId |-> "scaffoldProject", status |-> "success"]
       [] k = "f" -> [type |-> "step", stepId |-> "scaffoldProject", status |-> "failed"]
       [] k = "q" -> [type |-> "step", stepId |-> "createPlan", status |-> "running"]
       [] k = "p" -> [type |-> "step", stepId |-> "createPlan", status |-> "success"]
       [] k = "c" -> [type |-> "status", stepId |-> NoStep, status |-> "completed"]
       [] k = "x" -> [type |-> "status", stepId |-> NoStep, status |-> "failed"]
       [] k = "u" -> [type |-> "ping", stepId |-> NoStep, status |-> "-"]]

\* mutant: text that is not JSON is taken for a status event
JSONparseLenient(s) ==
  LET t == Trim(s)
  IN IF Len(t) = 3 /\ t[1] = "{" /\ t[3] = "}" /\ t[2] \in DOMAIN Decode
     THEN [ok |-> TRUE, v |-> Decode[t[2]]]
     ELSE [ok |-> TRUE, v |-> Decode["x"]]
\* JSON.parse: surrounding white space is allowed, anything else throws
JSONparse(s) ==
  LET t == Trim(s)
  IN IF Len(t) = 3 /\ t[1] = "{" /\ t[3] = "}" /\ t[2] \in DOMAIN Decode
     THEN [ok |-> TRUE, v |-> Decode[t[2]]]
     ELSE [ok |-> FALSE, v |-> Decode["u"]]

Frame(k) == DataPrefix \o <<"{", k, "}">> \o <<NL, NL>>

TerminalStatuses == {"completed", "failed", "cancelled", "error"}


\* ------------------------------------------------------------- run records
\* GET /runs?runId=... : { steps: { [stepId]: { status, output } } }.
\* A step's output is modelled by its rendering (text) and its files list.
Undef == "<undefined>"
File(p, c) == [path |-> p, content |-> c]
Step(id, st, out, txt, hf, fs) ==
  [id |-> id, status |-> st, hasOutput |-> out, text |-> txt,
   hasFiles |-> hf, files |-> fs]
Run(steps) == [ok |-> TRUE, hasSteps |-> TRUE, steps |-> steps]
RunNoSteps == [ok |-> TRUE, hasSteps |-> FALSE, steps |-> <<>>]
RunFails == [ok |-> FALSE, hasSteps |-> FALSE, steps |-> <<>>]

FilesX == <<File(<<"a">>, "x")>>
FilesY == <<File(<<"a">>, "y")>>

RunX ==
  Run(<<Step("createPlan", "success", TRUE, "T", FALSE, <<>>),
        Step("scaffoldProject", "success", TRUE, "T", TRUE, FilesX)>>)
RunY == Run(<<Step("scaffoldProject", "success", TRUE, "", TRUE, FilesY)>>)
RunRunning == Run(<<Step("scaffoldProject", "running", FALSE, "", FALSE, <<>>)>>)

\* the answers to the run-record requests of the poll session
MainRuns == {RunFails, RunNoSteps, RunX, RunY, RunRunning}
\* the answers to the run-record requests of the stream loop and the timer
StreamRuns == {RunFails, RunX}

HasStep(rec, id) == \E i \in 1..Len(rec.steps) : rec.steps[i].id = id
GetStep(rec, id) == rec.steps[CHOOSE i \in 1..Len(rec.steps) : rec.steps[i].id = id]

\* stepId.includes("scaffold")
IncludesScaffold(id) == id \in {"scaffoldProject", "scaffoldRetry"}

\* files.map(file => ({path, content: file.content || ""}))
MapFiles(fs) ==
  [i \in 1..Len(fs) |->
     File(fs[i].path, IF fs[i].content = Undef THEN "" ELSE fs[i].content)]

\* fetchStepOutput: the rendering of the step's output, "" on any failure
fetchStepOutput(resp, stepId) ==
  IF resp.ok /\ resp.hasSteps /\ HasStep(resp, stepId)
     /\ GetStep(resp, stepId).hasOutput
  THEN GetStep(resp, stepId).text
  ELSE ""

\* checkForFiles: new generatedFiles and the returned flag
checkForFiles(resp, gen) ==
  IF resp.ok /\ resp.hasSteps /\ HasStep(resp, "scaffoldProject")
     /\ GetStep(resp, "scaffoldProject").hasOutput
     /\ GetStep(resp, "scaffoldProject").hasFiles
  THEN [files |-> MapFiles(GetStep(resp, "scaffoldProject").files),
        has |-> Len(GetStep(resp, "scaffoldProject").files) > 0]
  ELSE [files |-> gen, has |-> FALSE]

\* ------------------------------------------------------------ notifications
NoSnap == [status |-> "-", scaffold |-> "absent", data |-> FALSE]
ProgressNote(text, gen) ==
  [ch |-> "progress", text |-> text, files |-> gen, snap |-> NoSnap]
\* mutant: the snapshot handed to onUpdate takes the step's status from the
\* run's status
StatusNoteStale(snap) ==
  [ch |-> "status", text |-> <<>>, files |-> <<>>,
   snap |-> [snap EXCEPT !.scaffold =
                IF snap.status = "running" THEN "running" ELSE @]]
StatusNote(snap) ==
  [ch |-> "status", text |-> <<>>, files |-> <<>>, snap |-> snap]
Piece(k, a) == [k |-> k, a |-> a]

\* ------------------------------------------------------------- stream loop
StreamState ==
  [buffer |-> buffer, fullText |-> fullText, generatedFiles |-> generatedFiles,
   currentStep |-> currentStep, workflowComplete |-> workflowComplete,
   spc |-> spc, pendingStep |-> pendingStep, parsed |-> parsed,
   succeeded |-> succeeded, termSeen |-> termSeen,
   scaffoldSeen |-> scaffoldSeen,
   notes |-> <<>>, inputs |-> <<>>, reqs |-> {}]

\* mutant: the callback is handed the text added last, not the whole text
onProgressLastLine(s) ==
  [s EXCEPT !.notes =
     Append(@, ProgressNote(IF s.fullText = <<>> THEN <<>>
                            ELSE <<s.fullText[Len(s.fullText)]>>,
                            s.generatedFiles))]
onProgress(s) ==
  [s EXCEPT !.notes = Append(@, ProgressNote(s.fullText, s.generatedFiles))]

\* the body of the "if (jsonData.type === ...)" chain, up to its first await
Dispatch(s0, ev) ==
  LET s == [s0 EXCEPT !.parsed = Append(@, ev), !.inputs = Append(@, ev)]
  IN CASE ev.type = "step" /\ ev.status = "running" ->
            onProgress([s EXCEPT !.currentStep = ev.stepId,
                                 !.fullText = Append(@, Piece("Running", ev.stepId))])
       [] ev.type = "step" /\ ev.status = "success" ->
            [s EXCEPT !.spc = "stepOutput", !.pendingStep = ev.stepId,
                      !.reqs = @ \cup {"runs"},
                      !.scaffoldSeen = IF ev.stepId = "scaffoldProject"
                                       THEN @ \cup {"stream"} ELSE @]
       [] ev.type = "step" /\ ev.status = "failed" ->
            onProgress([s EXCEPT !.fullText = Append(@, Piece("Error", ev.stepId))])
       [] ev.type = "status" /\ ev.status = "completed" ->
            [onProgress([s EXCEPT !.workflowComplete = TRUE,
                                  !.fullText = Append(@, Piece("WorkflowCompleted", NoStep))])
               EXCEPT !.spc = "filesComplete", !.reqs = @ \cup {"runs"},
                      !.termSeen = @ \cup {"stream"}]
       [] ev.type = "status" /\ ev.status # "completed" ->
            [onProgress([s EXCEPT !.fullText = Append(@, Piece("Status", ev.status))])
               EXCEPT !.termSeen = IF ev.status \in TerminalStatuses
                                   THEN @ \cup {"stream"} ELSE @]
       [] OTHER -> s

\* while ((eventEnd = buffer.indexOf("\n\n")) >= 0) { ... }, up to the first await
RECURSIVE Drain(_)
Drain(s) ==
  LET eventEnd == IndexOf(s.buffer)
  IN IF eventEnd < 0 THEN s
     ELSE LET eventData == Trim(Slice(s.buffer, 0, eventEnd))
              s1 == [s EXCEPT !.buffer = SliceFrom(s.buffer, eventEnd + 2)]
          IN IF StartsWith(eventData, DataPrefix)
             THEN LET j == JSONparse(SliceFrom(eventData, 6))
                  IN IF j.ok
                     THEN LET s2 == Dispatch(s1, j.v)
                          IN IF s2.spc = "read" THEN Drain(s2) ELSE s2
                     ELSE Drain(s1)
             ELSE Drain(s1)

SetStream(s) ==
  /\ buffer' = s.buffer
  /\ fullText' = s.fullText
  /\ generatedFiles' = s.generatedFiles
  /\ currentStep' = s.currentStep
  /\ workflowComplete' = s.workflowComplete
  /\ spc' = s.spc
  /\ pendingStep' = s.pendingStep
  /\ parsed' = s.parsed
  /\ succeeded' = s.succeeded
  /\ termSeen' = s.termSeen
  /\ scaffoldSeen' = s.scaffoldSeen
  /\ notes' = s.notes
  /\ inputs' = s.inputs
  /\ reqs' = s.reqs

\* the stream loop does not touch the poll session, the options or the result
StreamFrame ==
  UNCHANGED <<mode, pc, result, reader, timerOn, ticking, maxRetries,
              stopOnCompletion, isMonitoring, consecutiveErrors, hasExtractedFiles, ppc,
              workflowData, nPolls, passes, stopCalled, inFlightAtStop,
              dest, local, runData, api, attempts, dest0, runOutcome, endCause>>

\* mutant: the buffer is overwritten by each chunk
AppendChunkReset(buf, chunk) == chunk
\* buffer += chunk
AppendChunk(buf, chunk) == buf \o chunk

\* what the next read may deliver: the next chunk of the prepared payload, or
\* (streamInitializeProject) any whole frame the server chooses to send
StreamCodes == {"r", "s", "p", "c", "x"}
FrameLen == Len(Frame("r"))
\* mutant: nothing is read any more once the poll session has ended
DeliverableWhileMonitoring ==
  IF mode = "chunks"
  THEN IF wire = <<>> THEN {} ELSE {Head(wire)}
  ELSE IF Len(payload) < MaxFrames * FrameLen /\ isMonitoring
       THEN {Frame(k) : k \in StreamCodes} ELSE {}
Deliverable ==
  IF mode = "chunks"
  THEN IF wire = <<>> THEN {} ELSE {Head(wire)}
  ELSE IF Len(payload) < MaxFrames * FrameLen
       THEN {Frame(k) : k \in StreamCodes} ELSE {}

\* const { done, value } = await reader.read(): a chunk arrives
ReadChunk ==
  /\ pc = "stream" /\ spc = "read"
  /\ \E chunk \in Deliverable :
       /\ SetStream(Drain([StreamState EXCEPT
                             !.buffer = AppendChunk(buffer, chunk)]))
       /\ wire' = IF mode = "chunks" THEN Tail(wire) ELSE wire
       /\ payload' = IF mode = "chunks" THEN payload ELSE payload \o chunk
  /\ StreamFrame

\* await fetchStepOutput(stepId) returns
StepOutputResume ==
  /\ pc = "stream" /\ spc = "stepOutput"
  /\ \E resp \in StreamRuns :
       LET stepOutput == fetchStepOutput(resp, pendingStep)
           s1 == [StreamState EXCEPT
                    !.fullText = Append(@, Piece("Completed", pendingStep)),
                    !.succeeded = @ \cup {pendingStep}]
           s2 == IF stepOutput # ""
                 THEN onProgress([s1 EXCEPT !.fullText =
                                     Append(@, Piece("Output", pendingStep))])
                 ELSE s1
       IN IF pendingStep = "scaffoldProject"
          THEN SetStream([s2 EXCEPT !.spc = "filesScaffold", !.reqs = {"runs"}])
          ELSE SetStream(Drain([s2 EXCEPT !.spc = "read"]))
  /\ UNCHANGED <<wire, payload>>
  /\ StreamFrame

\* await checkForFiles() returns, after a scaffold success or a completed status
CheckFilesResume ==
  /\ pc = "stream" /\ spc \in {"filesScaffold", "filesComplete"}
  /\ \E resp \in StreamRuns :
       LET r == checkForFiles(resp, generatedFiles)
           s1 == [StreamState EXCEPT !.generatedFiles = r.files]
           s2 == IF spc = "filesScaffold" \/ r.has THEN onProgress(s1) ELSE s1
       IN SetStream(Drain([s2 EXCEPT !.spc = "read"]))
  /\ UNCHANGED <<wire, payload>>
  /\ StreamFrame

\* reader.read() reports done, or throws: the loop breaks and the call returns
ReadEnd ==
  /\ pc = "stream" /\ spc = "read"
  /\ pc' = "returned" /\ result' = "success" /\ spc' = "ended"
  /\ timerOn' = FALSE
  /\ notes' = <<>> /\ inputs' = <<>> /\ reqs' = {}
  /\ UNCHANGED <<mode, reader, ticking, wire, buffer, fullText, generatedFiles,
                 currentStep, workflowComplete, pendingStep, parsed,
                 maxRetries, stopOnCompletion, succeeded, termSeen,
                 scaffoldSeen, local, runData, api, attempts, dest0, payload, runOutcome>>
  /\ UNCHANGED pollVars


\* ------------------------------------------------- the destination directory
\* dest.files maps a path to its content, dest.dirs is the set of directories;
\* paths are sequences of segments relative to outputDir (<<>> is outputDir
\* itself, a leading ".." segment is a place outside it).
NoFS == [files |-> <<>>, dirs |-> {}]
EmptyDir == [files |-> <<>>, dirs |-> {<<>>}]
Put(f, p, c) == [q \in (DOMAIN f) \cup {p} |-> IF q = p THEN c ELSE f[q]]

IsOutside(p) == Len(p) > 0 /\ p[1] = ".."
AllUp(p) == Len(p) > 0 /\ \A i \in 1..Len(p) : p[i] = ".."
IsFile(fs, p) == p \in DOMAIN fs.files
\* the directories above outputDir exist, unless its parent is a file
IsDir(fs, p) == p \in fs.dirs \/ (AllUp(p) /\ p \notin DOMAIN fs.files)
existsSync(fs, p) == IsFile(fs, p) \/ IsDir(fs, p)
Prefixes(p) == {SubSeq(p, 1, n) : n \in 0..Len(p)}

\* path.dirname of a joined path
Dirname(p) ==
  IF p = <<>> \/ AllUp(p) THEN p \o <<"..">> ELSE SubSeq(p, 1, Len(p) - 1)

\* path.join(outputDir, file.path): "." segments dropped, ".." resolved
RECURSIVE NormalizeOnto(_, _)
NormalizeOnto(stack, segs) ==
  IF segs = <<>> THEN stack
  ELSE LET h == Head(segs)
           next == CASE h = "." -> stack
                     [] h = ".." /\ stack # <<>> /\ stack[Len(stack)] # ".." ->
                          SubSeq(stack, 1, Len(stack) - 1)
                     [] OTHER -> Append(stack, h)
       IN NormalizeOnto(next, Tail(segs))
Join(p) == NormalizeOnto(<<>>, p)

\* fs.mkdirSync(p, {recursive: true}): throws when a component is a file
mkdirSync(fs, p) ==
  IF \E q \in Prefixes(p) \cup {<<"..">>} : IsFile(fs, q)
  THEN [ok |-> FALSE, fs |-> fs]
  ELSE [ok |-> TRUE, fs |-> [fs EXCEPT !.dirs = @ \cup Prefixes(p)]]

\* mutant: a file that exists already is emptied instead of rewritten
writeFileSyncTruncating(fs, p, c) ==
  IF IsDir(fs, p) \/ ~IsDir(fs, Dirname(p))
  THEN [ok |-> FALSE, fs |-> fs]
  ELSE [ok |-> TRUE,
        fs |-> [fs EXCEPT !.files = Put(@, p, IF IsFile(fs, p) THEN "" ELSE c)]]
\* fs.writeFileSync(p, c): throws when p is a directory or its parent is not one
writeFileSync(fs, p, c) ==
  IF IsDir(fs, p) \/ ~IsDir(fs, Dirname(p))
  THEN [ok |-> FALSE, fs |-> fs]
  ELSE [ok |-> TRUE, fs |-> [fs EXCEPT !.files = Put(@, p, c)]]

\* mutant: the parent directory is not created
WriteOneNoMkdir(fs, file) ==
  IF file.path = <<>> THEN fs
  ELSE writeFileSync(fs, Join(file.path),
                     IF file.content = Undef THEN "" ELSE file.content).fs
\* one iteration of the loop of writeFilesToDirectory (try / catch around it)
WriteOne(fs, file) ==
  IF file.path = <<>> THEN fs
  ELSE LET filePath == Join(file.path)
           dirPath == Dirname(filePath)
           made == IF ~existsSync(fs, dirPath) THEN mkdirSync(fs, dirPath)
                   ELSE [ok |-> TRUE, fs |-> fs]
       IN IF ~made.ok THEN fs
          ELSE writeFileSync(made.fs, filePath,
                             IF file.content = Undef THEN "" ELSE file.content).fs

RECURSIVE WriteAll(_, _)
WriteAll(fs, files) ==
  IF files = <<>> THEN fs ELSE WriteAll(WriteOne(fs, Head(files)), Tail(files))

\* writeFilesToDirectory: outputDir is created when missing, then every file written
writeFilesToDirectory(files, fs) ==
  WriteAll(IF ~existsSync(fs, <<>>) THEN mkdirSync(fs, <<>>).fs ELSE fs, files)
\* the mkdirSync of outputDir is outside the try of the loop: when it throws,
\* writeFilesToDirectory throws before any file is written
WriteThrows(fs) == ~existsSync(fs, <<>>) /\ ~mkdirSync(fs, <<>>).ok


\* ------------------------------------------------------ the local file system
\* A node is a file or a directory; e maps the names in a directory to nodes,
\* m is the directory's modification time.
FileNode(c) == [t |-> "f", c |-> c, e |-> <<>>, m |-> 0]
DirNode(e, m) == [t |-> "d", c |-> "", e |-> e, m |-> m]
Missing == [t |-> "-", c |-> "", e |-> <<>>, m |-> 0]

RECURSIVE Lookup(_, _)
Lookup(node, p) ==
  IF p = <<>> THEN node
  ELSE IF node.t = "d" /\ Head(p) \in DOMAIN node.e
       THEN Lookup(node.e[Head(p)], Tail(p))
       ELSE Missing

\* the names of the model, in the order readdirSync lists them
NameOrder ==
  <<".env", ".git", ".gitignore", ".mastra", "README.md", "backend",
    "hack-helper", "index.ts", "node_modules", "notes.txt", "output",
    "package.json", "proj-abc123", "src", "undefined-project">>
\* mutant: "output" is not excluded
excludedDirsNoOutput == {"playground", "assets", "node_modules", ".git", ".mastra"}
excludedDirs == {"playground", "assets", "node_modules", "output", ".git", ".mastra"}
MarkerFiles == {"package.json", "tsconfig.json", "README.md"}
ParentMarkers == {"src", "dist", "tests", "config"}
\* item.startsWith(".")
StartsWithDot(n) == n \in {".env", ".git", ".gitignore", ".mastra"}
\* relevantExtensions.includes(ext) || relevantExtensions.some(e => item.endsWith(e)) || named files
isRelevantFile(n) == n \in {".env", ".gitignore", "README.md", "index.ts", "package.json"}
\* endsWith .json / .md / .ts / .js / .html / .css
IsUseful(n) == n \in {"README.md", "index.ts", "package.json"}
\* dir.includes("src"), dir.includes(runId)
IncludesSrc(n) == n = "src"
IncludesRunId(n) == n = "proj-abc123"

\* fs.readdirSync(dir)
readdirSync(node) ==
  SelectSeq(NameOrder, LAMBDA n : node.t = "d" /\ n \in DOMAIN node.e)
NonEmpty(fs) ==
  /\ <<>> \in fs.dirs
  /\ \E p \in (DOMAIN fs.files) \cup fs.dirs : Len(p) = 1 /\ ~IsOutside(p)

\* copyFilesRecursively(sourceDir, targetDir): thrown is TRUE when the call throws
RECURSIVE copyFilesRecursively(_, _, _, _)
RECURSIVE CopyItems(_, _, _, _)
\* mutant: the name of the source directory itself is not tested
copyFilesRecursivelyAnyRoot(node, dirName, targetDir, fs) ==
  LET made == IF ~existsSync(fs, targetDir) THEN mkdirSync(fs, targetDir)
              ELSE [ok |-> TRUE, fs |-> fs]
  IN IF ~made.ok THEN fs
     ELSE CopyItems(node, readdirSync(node), targetDir, made.fs)
copyFilesRecursively(node, dirName, targetDir, fs) ==
  LET made == IF ~existsSync(fs, targetDir) THEN mkdirSync(fs, targetDir)
              ELSE [ok |-> TRUE, fs |-> fs]
  IN IF ~made.ok THEN fs
     ELSE IF dirName \in excludedDirs THEN made.fs
     ELSE CopyItems(node, readdirSync(node), targetDir, made.fs)
CopyItems(node, items, targetDir, fs) ==
  IF items = <<>> THEN fs
  ELSE LET item == Head(items)
           child == node.e[item]
           targetPath == Append(targetDir, item)
           fs1 == CASE StartsWithDot(item) /\ item # ".gitignore" -> fs
                    [] child.t = "d" /\ item \in excludedDirs -> fs
                    [] child.t = "d" ->
                         copyFilesRecursively(child, item, targetPath, fs)
                    [] child.t = "f" /\ isRelevantFile(item) ->
                         writeFileSync(fs, targetPath, child.c).fs
                    [] OTHER -> fs
       IN CopyItems(node, Tail(items), targetDir, fs1)

\* the candidate directories: a base (the author's checkout, the working
\* directory, its parent) and a path below it
primaryPaths ==
  << [base |-> "abs", sub |-> <<"backend", ".mastra", "hack-helper">>],
     [base |-> "cwd", sub |-> <<"backend", ".mastra", "hack-helper">>],
     [base |-> "up", sub |-> <<"backend", ".mastra", "hack-helper">>],
     [base |-> "cwd", sub |-> <<".mastra", "hack-helper">>] >>
alternativePaths ==
  << [base |-> "abs", sub |-> <<"backend", ".mastra", "output">>],
     [base |-> "cwd", sub |-> <<"backend", ".mastra", "output">>],
     [base |-> "up", sub |-> <<"backend", ".mastra", "output">>],
     [base |-> "cwd", sub |-> <<".mastra", "output">>],
     [base |-> "abs", sub |-> <<"backend", ".mastra">>],
     [base |-> "cwd", sub |-> <<"backend", ".mastra">>],
     [base |-> "up", sub |-> <<"backend", ".mastra">>],
     [base |-> "cwd", sub |-> <<".mastra">>],
     [base |-> "abs", sub |-> <<"backend">>],
     [base |-> "cwd", sub |-> <<"backend">>],
     [base |-> "up", sub |-> <<"backend">>],
     [base |-> "cwd", sub |-> <<>>] >>

CandidateNode(loc, cand) == Lookup(loc[cand.base], cand.sub)
Basename(cand) ==
  IF cand.sub = <<>> THEN "." ELSE cand.sub[Len(cand.sub)]

\* the test of the search loop: exists, not empty, holds a directory or a marker file
IsSuitable(node) ==
  /\ node.t = "d"
  /\ DOMAIN node.e # {}
  /\ \/ \E n \in DOMAIN node.e : node.e[n].t = "d"
     \/ \E n \in DOMAIN node.e : n \in MarkerFiles

\* directories.sort by mtime, newest first (stable)
SortByMtime(node, dirs) ==
  SelectSeq(dirs, LAMBDA n : node.e[n].m = 1) \o
  SelectSeq(dirs, LAMBDA n : node.e[n].m # 1)

\* the "complete project" loop: copy from the first directory with a marker
\* file that leaves outputDir non-empty
RECURSIVE CompleteProject(_, _, _)
CompleteProject(node, dirs, fs) ==
  IF dirs = <<>> THEN [done |-> FALSE, fs |-> fs]
  ELSE LET dir == Head(dirs)
           sub == node.e[dir]
       IN IF \E n \in DOMAIN sub.e : n \in MarkerFiles
          THEN LET fs1 == copyFilesRecursively(sub, dir, <<>>, fs)
               IN IF NonEmpty(fs1) THEN [done |-> TRUE, fs |-> fs1]
                  ELSE CompleteProject(node, Tail(dirs), fs1)
          ELSE CompleteProject(node, Tail(dirs), fs)

\* the closing loop of the partial collection
RECURSIVE CollectUseful(_, _, _)
CollectUseful(node, dirs, fs) ==
  IF dirs = <<>> THEN fs
  ELSE LET dir == Head(dirs)
           sub == node.e[dir]
           fs1 == IF ~IncludesSrc(dir) /\ \E n \in DOMAIN sub.e : IsUseful(n)
                  THEN copyFilesRecursively(sub, dir, <<dir>>, fs)
                  ELSE fs
       IN CollectUseful(node, Tail(dirs), fs1)

\* potentialPaths, in the order the search loop tries them
PotentialPaths(useAlternativePaths) ==
  IF useAlternativePaths THEN alternativePaths \o primaryPaths
  ELSE primaryPaths \o alternativePaths
\* the index of the first suitable candidate, 0 when there is none
FirstSuitable(loc, paths) ==
  LET found == {i \in 1..Len(paths) : IsSuitable(CandidateNode(loc, paths[i]))}
  IN IF found = {} THEN 0 ELSE CHOOSE i \in found : \A j \in found : i <= j

\* the directories of outputPath: those naming the run when there are any,
\* newest first
Directories(outputPath, withRunId) ==
  LET allDirs == SelectSeq(readdirSync(outputPath),
                           LAMBDA n : outputPath.e[n].t = "d")
      matchingDirs == SelectSeq(allDirs, IncludesRunId)
  IN SortByMtime(outputPath,
                 IF withRunId /\ matchingDirs # <<>> THEN matchingDirs ELSE allDirs)

\* if (!fs.existsSync(dir)) fs.mkdirSync(dir, {recursive: true})
EnsureDir(fs, p) ==
  IF ~existsSync(fs, p) THEN mkdirSync(fs, p) ELSE [ok |-> TRUE, fs |-> fs]
CopyIfMade(node, name, targetDir, made) ==
  IF made.ok THEN copyFilesRecursively(node, name, targetDir, made.fs)
  ELSE made.fs
\* the first directory whose name includes "src" is copied to outputDir/src
CopySrcDir(outputPath, srcDirs, fs) ==
  IF srcDirs = <<>> THEN fs
  ELSE CopyIfMade(outputPath.e[srcDirs[1]], srcDirs[1], <<"src">>,
                  EnsureDir(fs, <<"src">>))
\* the partial collection: src first, then every directory with useful files
PartialCollection(outputPath, directories, fs) ==
  CollectUseful(outputPath, directories,
                CopySrcDir(outputPath, SelectSeq(directories, IncludesSrc), fs))
AfterParentCopy(outputPath, directories, fs) ==
  IF NonEmpty(fs) THEN fs ELSE PartialCollection(outputPath, directories, fs)
\* the "undefined-project" case: copy from outputPath itself when it holds a
\* marker file or a source directory
ParentCopy(outputPath, base, directories, fs) ==
  IF /\ \E i \in 1..Len(directories) : directories[i] = "undefined-project"
     /\ \E n \in DOMAIN outputPath.e : n \in MarkerFiles \cup ParentMarkers
  THEN AfterParentCopy(outputPath, directories,
                       copyFilesRecursively(outputPath, base, <<>>, fs))
  ELSE PartialCollection(outputPath, directories, fs)
AfterCompleteProject(outputPath, base, directories, complete) ==
  IF complete.done THEN complete.fs
  ELSE ParentCopy(outputPath, base, directories, complete.fs)
\* the strategies tried on the selected candidate, in order
ExtractFrom(outputPath, base, directories, fs) ==
  IF directories = <<>>
  THEN \* files lying directly in outputPath
       copyFilesRecursively(outputPath, base, <<>>, fs)
  ELSE AfterCompleteProject(outputPath, base, directories,
                            CompleteProject(outputPath, directories, fs))
ExtractAt(fs, loc, withRunId, paths, i) ==
  IF i = 0 THEN fs
  ELSE ExtractFrom(CandidateNode(loc, paths[i]), Basename(paths[i]),
                   Directories(CandidateNode(loc, paths[i]), withRunId), fs)

extractFromOutputDirectory(fs, loc, withRunId, useAlternativePaths) ==
  ExtractAt(fs, loc, withRunId, PotentialPaths(useAlternativePaths),
            FirstSuitable(loc, PotentialPaths(useAlternativePaths)))

\* ---------------------------------------------------------- extractProjectFiles
\* the index of the first scaffold-named step, with status success or with
\* any status; 0 when there is none
FirstSuccessScaffold(steps) ==
  LET hits == {i \in 1..Len(steps) :
                 IncludesScaffold(steps[i].id) /\ steps[i].status = "success"}
  IN IF hits = {} THEN 0 ELSE CHOOSE i \in hits : \A j \in hits : i <= j
FirstScaffold(steps) ==
  LET hits == {i \in 1..Len(steps) : IncludesScaffold(steps[i].id)}
  IN IF hits = {} THEN 0 ELSE CHOOSE i \in hits : \A j \in hits : i <= j
HasFilesField(step) == step.hasOutput /\ step.hasFiles

\* the step whose files extractProjectFiles writes, 0 when it falls back to
\* the directory search
StepToWrite(resp, scaffoldStep, anyScaffoldStep) ==
  IF ~resp.ok \/ ~resp.hasSteps THEN 0
  ELSE IF scaffoldStep = 0
  THEN IF anyScaffoldStep = 0 THEN 0
       ELSE IF ~HasFilesField(resp.steps[anyScaffoldStep]) THEN 0
       ELSE anyScaffoldStep
  ELSE IF ~HasFilesField(resp.steps[scaffoldStep])
          \/ Len(resp.steps[scaffoldStep].files) = 0
  THEN 0
  ELSE scaffoldStep

\* mutant: an exception of writeFilesToDirectory reaches the caller
ExtractViaNoCatch(resp, fs, loc, chosen) ==
  IF chosen = 0
  THEN [via |-> "fallback", steps |-> <<"lookup", "fallback">>, thrown |-> FALSE,
        fs |-> extractFromOutputDirectory(fs, loc, resp.ok, FALSE)]
  ELSE IF WriteThrows(fs)
  THEN [via |-> "write", steps |-> <<"lookup", "write">>, thrown |-> TRUE,
        fs |-> fs]
  ELSE [via |-> "write", steps |-> <<"lookup", "write">>, thrown |-> FALSE,
        fs |-> writeFilesToDirectory(resp.steps[chosen].files, fs)]
\* steps: the strategies gone through; thrown: the call threw to its caller
ExtractVia(resp, fs, loc, chosen) ==
  IF chosen = 0
  THEN \* a failed request lands in the catch, which passes no runId
       [via |-> "fallback", steps |-> <<"lookup", "fallback">>, thrown |-> FALSE,
        fs |-> extractFromOutputDirectory(fs, loc, resp.ok, FALSE)]
  ELSE IF WriteThrows(fs)
  THEN \* the catch runs the directory search, without runId
       [via |-> "fallback", steps |-> <<"lookup", "write", "fallback">>,
        thrown |-> FALSE,
        fs |-> extractFromOutputDirectory(fs, loc, FALSE, FALSE)]
  ELSE [via |-> "write", steps |-> <<"lookup", "write">>, thrown |-> FALSE,
        fs |-> writeFilesToDirectory(resp.steps[chosen].files, fs)]

\* the effect of extractProjectFiles on outputDir, given the answer to its
\* run-record request; via names the strategy that ran
extractProjectFiles(resp, fs, loc) ==
  ExtractVia(resp, fs, loc,
             StepToWrite(resp, FirstSuccessScaffold(resp.steps),
                         FirstScaffold(resp.steps)))


\* ------------------------------------------------- ensureProjectFilesExtracted
\* what the server answers: no answer to /health, runs/list throws, runs/list
\* holds no run, runs/list holds runs (resp is the record of the most recent)
ApiAnswers == {"down", "listFails", "noRuns", "runs"}
\* the last resort: the directory search, alternative paths first
EnsureAlternative(loc, fs, steps) ==
  [fs |-> extractFromOutputDirectory(fs, loc, FALSE, TRUE),
   steps |-> Append(steps, "fallbackAlt"), thrown |-> FALSE]
\* after extractProjectFiles on the most recent run; an exception of it is
\* caught and the last resort follows
EnsureAfterLookup(loc, r) ==
  IF ~r.thrown /\ NonEmpty(r.fs)
  THEN [fs |-> r.fs, steps |-> <<"fallback", "health", "list">> \o r.steps,
        thrown |-> FALSE]
  ELSE EnsureAlternative(loc, r.fs, <<"fallback", "health", "list">> \o r.steps)
\* after the first directory search
EnsureAfterFirst(answer, resp, loc, fs1) ==
  IF NonEmpty(fs1) THEN [fs |-> fs1, steps |-> <<"fallback">>, thrown |-> FALSE]
  ELSE IF answer = "down" THEN EnsureAlternative(loc, fs1, <<"fallback", "health">>)
  ELSE IF answer = "runs" THEN EnsureAfterLookup(loc, extractProjectFiles(resp, fs1, loc))
  ELSE EnsureAlternative(loc, fs1, <<"fallback", "health", "list">>)
ensureProjectFilesExtracted(answer, resp, fs, loc) ==
  EnsureAfterFirst(answer, resp, loc,
                   extractFromOutputDirectory(fs, loc, FALSE, FALSE))


\* ------------------------------------------------ monitorWorkflowStatus.poll
\* mutant: an option of 0 is taken as it is
EffectiveMaxRetriesRaw(opt) == opt
\* options?.maxRetries || 3 (an option of 0 stands for undefined as well)
EffectiveMaxRetries(opt) == IF opt = 0 THEN DefaultMaxRetries ELSE opt

Snap(st, sc) == [status |-> st, scaffold |-> sc, data |-> TRUE]
\* the snapshots a poll may return: the run's status and the scaffold step's
\* entry in activePaths
PollSnaps ==
  {Snap(st, sc) : st \in {"running"} \cup TerminalStatuses,
                  sc \in {"absent", "running", "success"}}
PollErrors == {"ECONNREFUSED", "ECONNRESET", "ETIMEDOUT"}

isWorkflowComplete(snap) == snap.status \in {"completed", "success"}
hasScaffoldCompleted(snap) == snap.scaffold = "success"
\* mutants: the hasExtractedFiles guard is missing; it is missing for the
\* scaffold step's success
ShouldExtractUnguarded(snap, extracted) ==
  isWorkflowComplete(snap) \/ hasScaffoldCompleted(snap)
ShouldExtractEachSuccess(snap, extracted) ==
  (isWorkflowComplete(snap) /\ ~extracted) \/ hasScaffoldCompleted(snap)
\* (isWorkflowComplete || hasScaffoldCompleted) && !hasExtractedFiles
ShouldExtract(snap, extracted) ==
  (isWorkflowComplete(snap) \/ hasScaffoldCompleted(snap)) /\ ~extracted
\* mutants: the list of terminal statuses is cut short
ShouldStopCompletedOnly(snap, soc) == soc /\ snap.status = "completed"
ShouldStopNoCancel(snap, soc) == soc /\ snap.status \in {"completed", "failed"}
\* stopOnCompletion && ["completed","failed","cancelled","error"].includes(status)
ShouldStop(snap, soc) == soc /\ snap.status \in TerminalStatuses
\* mutant: no error code is taken for a closed connection
isConnectionClosedNever(err) == FALSE
isConnectionClosed(err) == err \in {"ECONNRESET", "ECONNREFUSED", "ECONNABORTED"}
\* mutant: the connection-closed branch reconciles unconditionally
ClosedAlwaysExtract(extracted) == TRUE
\* the connection-closed branch of the catch: reconcile unless already done
ClosedShouldExtract(extracted) == ~extracted
\* mutant: the session goes on when the failures have just reached maxRetries
ReachedMaxRetriesStrict(errors, max) == errors > max
\* consecutiveErrors >= maxRetries
ReachedMaxRetries(errors, max) == errors >= max
\* if (isMonitoring) setTimeout(poll, pollingInterval)
Continue(monitoring) == IF monitoring THEN "scheduled" ELSE "done"

SnapInput(snap) ==
  [type |-> "snapshot", stepId |-> "scaffoldProject", status |-> snap.scaffold]

\* the poll session does not touch the stream loop
PollFrame ==
  UNCHANGED <<mode, pc, result, reader, wire, buffer, fullText, generatedFiles,
              currentStep, workflowComplete, spc, pendingStep, timerOn,
              ticking, parsed, maxRetries, stopOnCompletion, stopCalled,
              inFlightAtStop, local, runData, api, attempts, dest0, payload, runOutcome>>

\* mutant: poll is entered on a fixed interval, whatever became of the last entry
PollEntryInterval == {"start", "scheduled", "inflight", "x1", "x2", "x3"}
\* where poll is entered from: the call that starts the session, and the
\* setTimeout that ends the handling of a poll
PollEntry == {"start", "scheduled"}

\* poll() is entered (first call, or the setTimeout fires): the guard, then the request
\* mutant: poll does not test isMonitoring on entry
PollRequestUnguarded ==
  /\ ppc \in PollEntry
  /\ nPolls < (IF mode = "stream" THEN MaxStreamPolls ELSE MaxPolls)
  /\ ppc' = "inflight" /\ nPolls' = nPolls + 1 /\ reqs' = {"poll"}
  /\ notes' = <<>> /\ inputs' = <<>>
  /\ UNCHANGED <<isMonitoring, consecutiveErrors, hasExtractedFiles,
                 workflowData, passes, dest, endCause, succeeded, termSeen,
                 scaffoldSeen>>
  /\ PollFrame
PollRequest ==
  /\ ppc \in PollEntry
  /\ isMonitoring =>
       nPolls < (IF mode = "stream" THEN MaxStreamPolls ELSE MaxPolls)
  /\ IF isMonitoring
     THEN /\ ppc' = "inflight" /\ nPolls' = nPolls + 1 /\ reqs' = {"poll"}
     ELSE /\ ppc' = "done" /\ nPolls' = nPolls /\ reqs' = {}
  /\ notes' = <<>> /\ inputs' = <<>>
  /\ UNCHANGED <<isMonitoring, consecutiveErrors, hasExtractedFiles,
                 workflowData, passes, dest, endCause, succeeded, termSeen,
                 scaffoldSeen>>
  /\ PollFrame

\* the request resolves with a snapshot
PollResponse ==
  /\ ppc = "inflight"
  /\ \E snap \in PollSnaps :
       /\ consecutiveErrors' = 0
       /\ notes' = <<StatusNote(snap)>>
       /\ inputs' = <<SnapInput(snap)>>
       /\ succeeded' = IF snap.scaffold = "success"
                       THEN succeeded \cup {"scaffoldProject"} ELSE succeeded
       /\ scaffoldSeen' = IF snap.scaffold = "success"
                          THEN scaffoldSeen \cup {"poll"} ELSE scaffoldSeen
       /\ termSeen' = IF snap.status \in TerminalStatuses
                      THEN termSeen \cup {"poll"} ELSE termSeen
       /\ IF ShouldExtract(snap, hasExtractedFiles)
          THEN /\ ppc' = "x1" /\ passes' = passes + 1 /\ reqs' = {"pollRuns"}
               /\ workflowData' = snap
               /\ UNCHANGED <<isMonitoring, endCause>>
          ELSE IF ShouldStop(snap, stopOnCompletion)
          THEN IF ~hasExtractedFiles
               THEN /\ ppc' = "x2" /\ passes' = passes + 1
                    /\ reqs' = {"pollRuns"} /\ workflowData' = snap
                    /\ UNCHANGED <<isMonitoring, endCause>>
               ELSE /\ isMonitoring' = FALSE /\ ppc' = "done"
                    /\ endCause' = "terminal" /\ reqs' = {}
                    /\ UNCHANGED <<passes, workflowData>>
          ELSE /\ ppc' = Continue(isMonitoring) /\ reqs' = {}
               /\ UNCHANGED <<isMonitoring, endCause, passes, workflowData>>
  /\ UNCHANGED <<hasExtractedFiles, nPolls, dest>>
  /\ PollFrame

\* the request resolves without data: nothing is handled, not even the counter
PollNoData ==
  /\ ppc = "inflight"
  /\ ppc' = Continue(isMonitoring)
  /\ notes' = <<>> /\ inputs' = <<>> /\ reqs' = {}
  /\ UNCHANGED <<isMonitoring, consecutiveErrors, hasExtractedFiles,
                 workflowData, nPolls, passes, dest, endCause, succeeded,
                 termSeen, scaffoldSeen>>
  /\ PollFrame

\* await this.extractProjectFiles(...) returns inside poll
ExtractResume ==
  /\ ppc \in {"x1", "x2", "x3"}
  /\ \E resp \in MainRuns : dest' = extractProjectFiles(resp, dest, local).fs
  /\ hasExtractedFiles' = IF ppc = "x2" THEN hasExtractedFiles ELSE TRUE
  /\ IF ppc = "x1" /\ ~ShouldStop(workflowData, stopOnCompletion)
     THEN /\ ppc' = Continue(isMonitoring)
          /\ UNCHANGED <<isMonitoring, endCause>>
     ELSE /\ isMonitoring' = FALSE /\ ppc' = "done"
          /\ endCause' = IF ppc = "x3" THEN "closed" ELSE "terminal"
  /\ workflowData' = NoSnap
  /\ notes' = <<>> /\ inputs' = <<>> /\ reqs' = {}
  /\ UNCHANGED <<consecutiveErrors, nPolls, passes, succeeded, termSeen,
                 scaffoldSeen>>
  /\ PollFrame

\* the request rejects: the catch block
PollError ==
  /\ ppc = "inflight"
  /\ \E err \in PollErrors :
       /\ consecutiveErrors' = consecutiveErrors + 1
       /\ IF isConnectionClosed(err)
          THEN IF ClosedShouldExtract(hasExtractedFiles)
               THEN /\ ppc' = "x3" /\ passes' = passes + 1
                    /\ reqs' = {"pollRuns"}
                    /\ UNCHANGED <<isMonitoring, endCause, dest>>
               ELSE /\ isMonitoring' = FALSE /\ ppc' = "done"
                    /\ endCause' = "closed" /\ reqs' = {}
                    /\ UNCHANGED <<passes, dest>>
          ELSE IF ReachedMaxRetries(consecutiveErrors + 1, maxRetries)
          THEN /\ dest' = IF ~hasExtractedFiles
                          THEN extractFromOutputDirectory(dest, local, TRUE, FALSE)
                          ELSE dest
               /\ passes' = IF ~hasExtractedFiles THEN passes + 1 ELSE passes
               /\ isMonitoring' = FALSE /\ ppc' = "done"
               /\ endCause' = "retries" /\ reqs' = {}
          ELSE /\ ppc' = Continue(isMonitoring) /\ reqs' = {}
               /\ UNCHANGED <<isMonitoring, endCause, passes, dest>>
       /\ inputs' = <<[type |-> "error", stepId |-> NoStep, status |-> err]>>
  /\ notes' = <<>>
  /\ UNCHANGED <<hasExtractedFiles, workflowData, nPolls, succeeded, termSeen,
                 scaffoldSeen>>
  /\ PollFrame

\* the caller invokes the function monitorWorkflowStatus returned
Stop ==
  /\ mode = "monitor" /\ ~stopCalled /\ ppc # "start"
  /\ isMonitoring' = FALSE
  /\ stopCalled' = TRUE
  /\ inFlightAtStop' = (ppc = "inflight")
  /\ notes' = <<>> /\ inputs' = <<>> /\ reqs' = {}
  /\ UNCHANGED <<mode, pc, result, maxRetries, stopOnCompletion,
                 consecutiveErrors, hasExtractedFiles, ppc, workflowData,
                 nPolls, passes, dest, endCause, succeeded, termSeen,
                 scaffoldSeen, local, runData, api, attempts, dest0, payload, runOutcome>>
  /\ UNCHANGED streamVars

\* ------------------------------------------- streamInitializeProject, the call
CreateOutcomes == {"ok", "non2xx", "noRunId", "throws"}
WatchOutcomes == {"reader", "timeout", "non2xx", "nobody"}
\* mutant: the runId check is missing
CreateRunFailsNoIdCheck(o) == o \in {"non2xx", "throws"}
\* !createRunResponse.ok, a body that does not parse, or no runId in it
CreateRunFails(o) == o # "ok"

CallFrame ==
  UNCHANGED <<mode, wire, buffer, fullText, generatedFiles, currentStep,
              workflowComplete, pendingStep, ticking, parsed, maxRetries,
              stopOnCompletion, consecutiveErrors, hasExtractedFiles,
              workflowData, passes, stopCalled, inFlightAtStop, dest,
              endCause, succeeded, termSeen, scaffoldSeen, local, runData, api, attempts,
              dest0, payload>>

\* fetch(.../createRun) is issued
CreateRun ==
  /\ mode = "stream" /\ pc = "init"
  /\ pc' = "createRun" /\ reqs' = {"createRun"}
  /\ notes' = <<>> /\ inputs' = <<>>
  /\ UNCHANGED <<result, reader, spc, timerOn, isMonitoring, ppc, nPolls,
                 runOutcome>>
  /\ CallFrame

\* the createRun request ends; on success the watch and start-async requests go out
CreateRunResponse ==
  /\ pc = "createRun"
  /\ \E o \in CreateOutcomes :
       /\ runOutcome' = o
       /\ IF CreateRunFails(o)
          THEN pc' = "returned" /\ result' = "failure" /\ reqs' = {}
          ELSE pc' = "startAsync" /\ result' = result /\ reqs' = {"watch", "start"}
  /\ notes' = <<>> /\ inputs' = <<>>
  /\ UNCHANGED <<reader, spc, timerOn, isMonitoring, ppc, nPolls>>
  /\ CallFrame

\* the start-async request ends; on success monitorWorkflowStatus is called
\* and its first poll request goes out
StartResponse ==
  /\ pc = "startAsync"
  /\ \E ok \in BOOLEAN :
       IF ok
       THEN /\ pc' = "watchRace" /\ result' = result
            /\ ppc' = "inflight" /\ nPolls' = nPolls + 1 /\ reqs' = {"poll"}
       ELSE /\ pc' = "returned" /\ result' = "failure"
            /\ ppc' = ppc /\ nPolls' = nPolls /\ reqs' = {}
  /\ notes' = <<>> /\ inputs' = <<>>
  /\ UNCHANGED <<reader, spc, timerOn, isMonitoring, runOutcome>>
  /\ CallFrame

\* mutant: a watch request without a reader ends the call with a failure
WatchResultFatal ==
  /\ pc = "watchRace"
  /\ \E o \in WatchOutcomes :
       IF o = "reader"
       THEN pc' = "stream" /\ reader' = "open" /\ spc' = "read"
            /\ result' = result /\ timerOn' = TRUE
       ELSE pc' = "returned" /\ reader' = "null" /\ spc' = spc
            /\ result' = "failure" /\ timerOn' = FALSE
  /\ notes' = <<>> /\ inputs' = <<>> /\ reqs' = {}
  /\ UNCHANGED <<isMonitoring, ppc, nPolls, runOutcome>>
  /\ CallFrame
\* Promise.race([watchPromise, timeoutPromise]) settles; fileCheckInterval is set
WatchResult ==
  /\ pc = "watchRace"
  /\ \E o \in WatchOutcomes :
       IF o = "reader"
       THEN pc' = "stream" /\ reader' = "open" /\ spc' = "read"
       ELSE pc' = "pollingOnly" /\ reader' = "null" /\ spc' = spc
  /\ timerOn' = TRUE
  /\ notes' = <<>> /\ inputs' = <<>> /\ reqs' = {}
  /\ UNCHANGED <<result, isMonitoring, ppc, nPolls, runOutcome>>
  /\ CallFrame

\* polling-only mode: the 10 s timer fires and the call returns
PollingOnlyTimeout ==
  /\ pc = "pollingOnly"
  /\ pc' = "returned" /\ result' = "success"
  /\ timerOn' = FALSE
  /\ notes' = <<>> /\ inputs' = <<>> /\ reqs' = {}
  /\ UNCHANGED <<reader, spc, isMonitoring, ppc, nPolls, runOutcome>>
  /\ CallFrame


\* a tick of fileCheckInterval: nothing before workflowComplete, else the
\* callback issues the request of checkForFiles
\* mutant: the timer callback checks for files whether or not the workflow
\* has completed
TimerTickAlways ==
  /\ timerOn /\ ticking < MaxTicks
  /\ ticking' = ticking + 1
  /\ notes' = <<>> /\ inputs' = <<>> /\ reqs' = {"runs"}
  /\ UNCHANGED <<mode, pc, result, reader, wire, buffer, fullText,
                 generatedFiles, currentStep, workflowComplete, spc,
                 pendingStep, timerOn, parsed, maxRetries, stopOnCompletion,
                 succeeded, termSeen, scaffoldSeen, local, runData, api, attempts, dest0,
                 payload, runOutcome>>
  /\ UNCHANGED pollVars
TimerTick ==
  /\ timerOn /\ workflowComplete /\ ticking < MaxTicks
  /\ ticking' = ticking + 1
  /\ notes' = <<>> /\ inputs' = <<>> /\ reqs' = {"runs"}
  /\ UNCHANGED <<mode, pc, result, reader, wire, buffer, fullText,
                 generatedFiles, currentStep, workflowComplete, spc,
                 pendingStep, timerOn, parsed, maxRetries, stopOnCompletion,
                 succeeded, termSeen, scaffoldSeen, local, runData, api, attempts, dest0,
                 payload, runOutcome>>
  /\ UNCHANGED pollVars

\* await checkForFiles() returns inside the timer callback
TimerResume ==
  /\ ticking > 0
  /\ \E resp \in StreamRuns :
       LET r == checkForFiles(resp, generatedFiles)
       IN /\ generatedFiles' = r.files
          /\ notes' = IF r.has THEN <<ProgressNote(fullText, r.files)>> ELSE <<>>
          /\ timerOn' = IF r.has THEN FALSE ELSE timerOn
  /\ ticking' = ticking - 1
  /\ inputs' = <<>> /\ reqs' = {}
  /\ UNCHANGED <<mode, pc, result, reader, wire, buffer, fullText,
                 currentStep, workflowComplete, spc, pendingStep, parsed,
                 maxRetries, stopOnCompletion, succeeded, termSeen,
                 scaffoldSeen, local, runData, api, attempts, dest0, payload, runOutcome>>
  /\ UNCHANGED pollVars

\* ------------------------------------------------------------ initial states
\* the sequences over S of length at most n
RECURSIVE SeqsUpTo(_, _)
SeqsUpTo(S, n) ==
  IF n = 0 THEN {<<>>}
  ELSE SeqsUpTo(S, n - 1) \cup
       {Append(q, x) : q \in SeqsUpTo(S, n - 1), x \in S}

LocalEmpty == [abs |-> Missing, up |-> Missing, cwd |-> DirNode(<<>>, 0)]
ProjectDir ==
  DirNode(("package.json" :> FileNode("p")) @@ ("notes.txt" :> FileNode("n")) @@
          ("src" :> DirNode("index.ts" :> FileNode("i"), 0)) @@
          ("node_modules" :> DirNode("index.ts" :> FileNode("d"), 0)), 0)
LocalProject ==
  [abs |-> Missing, up |-> Missing,
   cwd |-> DirNode(".mastra" :>
             DirNode("hack-helper" :> DirNode("proj-abc123" :> ProjectDir, 0), 0), 0)]
MainLocals == {LocalEmpty, LocalProject}
\* the working directory holding candidate sub under .mastra
CwdAt(sub, node) ==
  [abs |-> Missing, up |-> Missing,
   cwd |-> DirNode(".mastra" :> DirNode(sub :> node, 0), 0)]
SrcDir == DirNode("index.ts" :> FileNode("i"), 0)
\* a directory named as an excluded one, holding project files
HiddenDir(m) ==
  DirNode(("package.json" :> FileNode("h")) @@ ("index.ts" :> FileNode("h")), m)
\* the newest directory of the candidate is named "output"
LocalNewestExcluded ==
  CwdAt("hack-helper",
        DirNode(("output" :> HiddenDir(1)) @@ ("proj-abc123" :> ProjectDir), 0))
\* no directory holds a marker file
LocalPartial ==
  CwdAt("hack-helper",
        DirNode(("src" :> SrcDir) @@ ("node_modules" :> HiddenDir(0)) @@
                ("backend" :> DirNode(("index.ts" :> FileNode("b")) @@
                                      ("notes.txt" :> FileNode("n")), 0)), 0))
\* the project was generated into the candidate itself
LocalUndefinedProject ==
  CwdAt("hack-helper",
        DirNode(("undefined-project" :> DirNode("notes.txt" :> FileNode("n"), 0)) @@
                ("package.json" :> FileNode("p")) @@ ("src" :> SrcDir) @@
                ("node_modules" :> HiddenDir(0)), 0))
\* only an alternative candidate exists, and it holds files alone
LocalAlternativeFiles ==
  CwdAt("output",
        DirNode(("package.json" :> FileNode("p")) @@
                ("index.ts" :> FileNode("i")), 0))
\* the primary candidate holds files alone
LocalFilesOnly ==
  CwdAt("hack-helper",
        DirNode(("package.json" :> FileNode("p")) @@
                ("README.md" :> FileNode("r")) @@
                ("notes.txt" :> FileNode("n")), 0))
\* the only directory with a marker file is an excluded one
LocalExcludedThenSrc ==
  CwdAt("hack-helper",
        DirNode(("output" :> HiddenDir(0)) @@ ("src" :> SrcDir), 0))
\* cwd/.mastra holds files alone
LocalMastraFiles ==
  [abs |-> Missing, up |-> Missing, cwd |-> DirNode(".mastra" :> HiddenDir(0), 0)]
\* the project was generated into the alternative candidate cwd/.mastra/output
LocalOutputProject ==
  CwdAt("output",
        DirNode(("undefined-project" :> DirNode("notes.txt" :> FileNode("n"), 0)) @@
                ("package.json" :> FileNode("p")) @@ ("src" :> SrcDir), 0))
\* the same without a source directory
LocalOutputMarker ==
  CwdAt("output",
        DirNode(("undefined-project" :> DirNode("notes.txt" :> FileNode("n"), 0)) @@
                ("package.json" :> FileNode("p")), 0))
FileLocals ==
  MainLocals \cup
  {LocalNewestExcluded, LocalPartial, LocalUndefinedProject,
   LocalAlternativeFiles, LocalFilesOnly, LocalExcludedThenSrc,
   LocalMastraFiles, LocalOutputProject, LocalOutputMarker}

InitCommon ==
  /\ result = "none" /\ buffer = <<>> /\ fullText = <<>>
  /\ generatedFiles = <<>> /\ currentStep = "" /\ workflowComplete = FALSE
  /\ pendingStep = NoStep /\ parsed = <<>>
  /\ timerOn = FALSE /\ ticking = 0
  /\ isMonitoring = TRUE /\ consecutiveErrors = 0 /\ hasExtractedFiles = FALSE
  /\ workflowData = NoSnap /\ nPolls = 0 /\ passes = 0
  /\ stopCalled = FALSE /\ inFlightAtStop = FALSE
  /\ succeeded = {} /\ termSeen = {} /\ scaffoldSeen = {}
  /\ notes = <<>> /\ inputs = <<>> /\ reqs = {}
  /\ runOutcome = "none" /\ endCause = "none"
  /\ dest0 = dest /\ attempts = <<>>

\* streamInitializeProject is called: outputDir is a fresh project path
InitStream ==
  /\ mode = "stream" /\ pc = "init" /\ spc = "idle" /\ ppc = "off"
  /\ reader = "null"
  /\ wire = <<>> /\ payload = <<>>
  /\ maxRetries = EffectiveMaxRetries(0) /\ stopOnCompletion = TRUE
  /\ dest = NoFS /\ local = LocalProject /\ runData = RunNoSteps /\ api = "runs"
  /\ InitCommon

\* monitorWorkflowStatus is called on its own, with any options
InitMonitor ==
  /\ mode = "monitor" /\ pc = "n/a" /\ spc = "idle" /\ ppc = "start"
  /\ reader = "null"
  /\ wire = <<>> /\ payload = <<>>
  /\ maxRetries \in {EffectiveMaxRetries(o) : o \in 0..MaxRetriesOpt}
  /\ stopOnCompletion \in BOOLEAN
  /\ dest = NoFS /\ local \in MainLocals /\ runData = RunNoSteps /\ api = "runs"
  /\ InitCommon

Init == InitStream \/ InitMonitor

\* ---- a monitorWorkflowStatus session from a point after which every poll
\* request fails: between two polls, with any count of failures short of
\* maxRetries behind it and a reconciliation pass done or not
InitFailing ==
  /\ mode = "monitor" /\ pc = "n/a" /\ spc = "idle"
  /\ reader = "null" /\ wire = <<>> /\ payload = <<>>
  /\ maxRetries \in {EffectiveMaxRetries(o) : o \in 0..MaxRetriesOpt}
  /\ stopOnCompletion \in BOOLEAN
  /\ local \in MainLocals /\ runData = RunNoSteps /\ api = "runs"
  /\ consecutiveErrors \in 0..(maxRetries - 1)
  /\ hasExtractedFiles \in BOOLEAN
  /\ ppc \in PollEntry
  /\ ppc = "start" => (consecutiveErrors = 0 /\ ~hasExtractedFiles)
  /\ passes = IF hasExtractedFiles THEN 1 ELSE 0
  /\ dest = IF hasExtractedFiles
            THEN extractProjectFiles(RunNoSteps, NoFS, local).fs ELSE NoFS
  /\ scaffoldSeen = IF hasExtractedFiles THEN {"poll"} ELSE {}
  /\ succeeded = IF hasExtractedFiles THEN {"scaffoldProject"} ELSE {}
  /\ termSeen = {}
  /\ result = "none" /\ buffer = <<>> /\ fullText = <<>>
  /\ generatedFiles = <<>> /\ currentStep = "" /\ workflowComplete = FALSE
  /\ pendingStep = NoStep /\ parsed = <<>>
  /\ timerOn = FALSE /\ ticking = 0
  /\ isMonitoring = TRUE /\ workflowData = NoSnap /\ nPolls = 0
  /\ stopCalled = FALSE /\ inFlightAtStop = FALSE
  /\ notes = <<>> /\ inputs = <<>> /\ reqs = {}
  /\ runOutcome = "none" /\ endCause = "none"
  /\ dest0 = dest /\ attempts = <<>>

\* ---- the stream loop alone, fed a payload cut into chunks
Pieces ==
  { Frame("r"), Frame("s"), <<NL>>, <<"{", "c", "}", NL, NL>>,
    DataPrefix \o <<"{", "x">> }
RECURSIVE Payloads(_)
Payloads(n) ==
  IF n = 0 THEN {<<>>}
  ELSE Payloads(n - 1) \cup {q \o x : q \in Payloads(n - 1), x \in Pieces}
RECURSIVE CutSets(_, _)
CutSets(len, k) ==
  IF k = 0 THEN {{}}
  ELSE CutSets(len, k - 1) \cup
       {c \cup {i} : c \in CutSets(len, k - 1), i \in 1..(len - 1)}
\* the chunks of text t cut after the positions in cuts
RECURSIVE Split(_, _, _)
Split(t, from, cuts) ==
  IF from >= Len(t) THEN <<>>
  ELSE LET ahead == {c \in cuts : c > from}
           to == IF ahead = {} THEN Len(t)
                 ELSE CHOOSE c \in ahead : \A d \in ahead : c <= d
       IN <<SubSeq(t, from + 1, to)>> \o Split(t, to, cuts)

InitChunks ==
  /\ mode = "chunks" /\ pc = "stream" /\ spc = "read" /\ ppc = "off"
  /\ reader = "open"
  /\ payload \in Payloads(MaxPieces)
  /\ \E cuts \in CutSets(Len(payload), MaxCuts) : wire = Split(payload, 0, cuts)
  /\ maxRetries = EffectiveMaxRetries(0) /\ stopOnCompletion = TRUE
  /\ dest = NoFS /\ local = LocalEmpty /\ runData = RunNoSteps /\ api = "runs"
  /\ InitCommon

NextChunks == ReadChunk \/ StepOutputResume \/ CheckFilesResume \/ ReadEnd

SpecChunks == InitChunks /\ [][NextChunks]_vars

\* ---- the stream loop alone, fed whole frames, one frame to a chunk
GoodFrames == {Frame("r"), Frame("s"), Frame("x")}
\* no "data: " prefix; text that is not JSON; a type the loop does not know
BadFrames ==
  { <<"{", "c", "}", NL, NL>>,
    DataPrefix \o <<"{", "x", NL, NL>>,
    Frame("u") }
RECURSIVE Concat(_)
Concat(chunks) ==
  IF chunks = <<>> THEN <<>> ELSE Head(chunks) \o Concat(Tail(chunks))
InitFrames ==
  /\ mode = "chunks" /\ pc = "stream" /\ spc = "read" /\ ppc = "off"
  /\ reader = "open"
  /\ wire \in SeqsUpTo(GoodFrames \cup BadFrames, MaxPieces)
  /\ payload = Concat(wire)
  /\ maxRetries = EffectiveMaxRetries(0) /\ stopOnCompletion = TRUE
  /\ dest = NoFS /\ local = LocalEmpty /\ runData = RunNoSteps /\ api = "runs"
  /\ InitCommon

SpecFrames == InitFrames /\ [][NextChunks]_vars

\* ---- the reconciler alone, handed a run record
ListPaths ==
  {<<>>, <<"a">>, <<"b">>, <<"a", "b">>, <<"..", "b">>, <<".", "a">>}
ListFiles == {File(p, c) : p \in ListPaths, c \in {"x", "y", Undef}}
Lists(n) == SeqsUpTo(ListFiles, n)
FileRuns ==
  {Run(<<Step("scaffoldProject", "success", TRUE, "", TRUE, fl)>>) :
     fl \in Lists(MaxListLen)}
  \cup {Run(<<Step("scaffoldRetry", "success", TRUE, "", FALSE, <<>>),
              Step("scaffoldProject", "success", TRUE, "", TRUE, fl)>>) :
          fl \in Lists(1)}
  \cup {Run(<<Step("scaffoldRetry", "failed", TRUE, "", TRUE, fl),
              Step("createPlan", "success", TRUE, "T", FALSE, <<>>)>>) :
          fl \in Lists(1)}
  \cup {RunNoSteps, RunFails, RunRunning}
\* outputDir is missing and cannot be created: its parent is a file
Blocked == [files |-> (<<"..">> :> "old"), dirs |-> {}]
FileDests ==
  { NoFS, EmptyDir,
    [files |-> (<<"a">> :> "old"), dirs |-> {<<>>}],
    [files |-> (<<"b", "c">> :> "old"), dirs |-> {<<>>, <<"b">>}],
    Blocked }

FallbackRuns == {RunNoSteps, RunFails, RunRunning, RunX}
InitFiles ==
  /\ mode = "files" /\ pc = "n/a" /\ spc = "idle" /\ ppc = "off"
  /\ reader = "null"
  /\ wire = <<>> /\ payload = <<>>
  /\ maxRetries = EffectiveMaxRetries(0) /\ stopOnCompletion = TRUE
  /\ dest \in FileDests
  /\ \/ local \in MainLocals /\ runData \in FileRuns /\ api = "runs"
     \/ local \in FileLocals /\ runData \in FallbackRuns /\ api \in ApiAnswers
  /\ InitCommon

Outcome(thrown) == IF thrown THEN "threw" ELSE "returned"
FilesFrame ==
  /\ passes' = passes + 1
  /\ notes' = <<>> /\ inputs' = <<>>
  /\ UNCHANGED <<mode, result, maxRetries, stopOnCompletion, isMonitoring,
                 consecutiveErrors, hasExtractedFiles, ppc, workflowData,
                 nPolls, stopCalled, inFlightAtStop, endCause, succeeded,
                 termSeen, scaffoldSeen, local, runData, api, dest0, payload,
                 runOutcome>>
  /\ UNCHANGED streamVars
\* extractProjectFiles runs to its end on the run record it receives
ReconcileFrom(from, to) ==
  /\ mode = "files" /\ pc = from
  /\ pc' = to
  /\ dest' = extractProjectFiles(runData, dest, local).fs
  /\ attempts' = Append(extractProjectFiles(runData, dest, local).steps,
                        Outcome(extractProjectFiles(runData, dest, local).thrown))
  /\ reqs' = {"pollRuns"}
  /\ FilesFrame
Reconcile == ReconcileFrom("n/a", "reconciled")
\* ... and is called again, the run record and the local directories the same
ReconcileAgain == ReconcileFrom("reconciled", "reconciledAgain")
\* ensureProjectFilesExtracted runs to its end
EnsureFrom(from, to) ==
  /\ mode = "files" /\ pc = from
  /\ pc' = to
  /\ dest' = ensureProjectFilesExtracted(api, runData, dest, local).fs
  /\ attempts' = Append(ensureProjectFilesExtracted(api, runData, dest, local).steps,
                        Outcome(ensureProjectFilesExtracted(api, runData, dest, local).thrown))
  /\ reqs' = {r \in {"health", "list", "pollRuns"} :
               \E i \in 1..Len(attempts') :
                 attempts'[i] = (IF r = "pollRuns" THEN "lookup" ELSE r)}
  /\ FilesFrame
Ensure == EnsureFrom("n/a", "ensured")
EnsureAgain == EnsureFrom("ensured", "ensuredAgain")

NextFiles == Reconcile \/ ReconcileAgain \/ Ensure \/ EnsureAgain

SpecFiles == InitFiles /\ [][NextFiles]_vars

Next ==
  \/ CreateRun \/ CreateRunResponse \/ StartResponse \/ WatchResult
  \/ PollingOnlyTimeout
  \/ ReadChunk \/ StepOutputResume \/ CheckFilesResume \/ ReadEnd
  \/ TimerTick \/ TimerResume
  \/ PollRequest \/ PollResponse \/ PollNoData \/ ExtractResume \/ PollError
  \/ Stop

Spec == Init /\ [][Next]_vars

\* every poll request fails; a scheduled poll is entered, a request settles and
\* an awaited reconciliation returns
NextFailing == PollRequest \/ PollError \/ ExtractResume \/ Stop
\* ExtractResume is enabled exactly while poll awaits a reconciliation and
\* always ends the wait: its weak fairness is []<>~AwaitsExtract
AwaitsExtract == ppc \in {"x1", "x2", "x3"}
SpecFailing ==
  /\ InitFailing /\ [][NextFailing]_vars
  /\ WF_vars(PollRequest) /\ WF_vars(PollError) /\ []<>~AwaitsExtract


\* =================================================================== claims
StepsShown == {"scaffoldProject", "createPlan"}
StepPieces(text, s) ==
  {i \in 1..Len(text) : text[i].a = s /\ text[i].k \in {"Running", "Completed", "Error"}}
\* the notification shows step s as running / pending
ShowsRunning(note, s) ==
  IF note.ch = "status"
  THEN s = "scaffoldProject" /\ note.snap.scaffold \in {"running", "pending"}
  ELSE /\ StepPieces(note.text, s) # {}
       /\ note.text[CHOOSE i \in StepPieces(note.text, s) :
                      \A j \in StepPieces(note.text, s) : i >= j].k = "Running"
RunningLines(text, s) ==
  Cardinality({i \in 1..Len(text) : text[i] = Piece("Running", s)})

C5_ClosedOnlyAtMaxRetries ==
  endCause = "closed" => consecutiveErrors >= maxRetries

\* C5 (amended): the first poll failure with a connection reset / refused /
\* aborted code ends the session whatever the failure count: no further poll,
\* isMonitoring false, and a reconciliation attempt fires then unless one ran
\* before, so that the session has made exactly one attempt.
C5_ClosedEndsAtOnce ==
  /\ [](endCause = "closed"
          => (~isMonitoring /\ ppc = "done" /\ passes = 1
              /\ consecutiveErrors >= 1))
  /\ [][(\E i \in 1..Len(inputs') :
            inputs'[i].type = "error" /\ isConnectionClosed(inputs'[i].status))
          => (ppc' \in {"x3", "done"}
              /\ (ppc' = "x3" <=> (passes' = passes + 1))
              /\ (ppc' = "x3" <=> ~hasExtractedFiles))]_vars

\* the scenario: one successful "running" poll, then one connection-refused
\* failure with maxRetries = 3
C5_Witness ==
  /\ endCause = "closed" /\ maxRetries = 3 /\ consecutiveErrors = 1
  /\ nPolls = 2 /\ passes = 1 /\ ~isMonitoring /\ hasExtractedFiles

\* C6: after the stop function has been invoked no new poll is issued, and the
\* result of a poll in flight is discarded: no onUpdate callback, no
\* reconciliation call.
C6_StopDiscardsInFlight ==
  [][stopCalled
       => (/\ "poll" \notin reqs'
           /\ \A i \in 1..Len(notes') : notes'[i].ch # "status"
           /\ "pollRuns" \notin reqs'
           /\ passes' = passes)]_vars

\* C7: when createRun returns a non-2xx response or a body without runId, the
\* call returns success = false at once: the failing step issues no request,
\* and no watch, start-async, poll or reconciliation request is ever made.
C7_CreateRunFatal ==
  runOutcome \notin {"none", "ok"}
    => (/\ result = "failure" /\ pc = "returned"
        /\ reqs = {} /\ ppc = "off" /\ nPolls = 0 /\ passes = 0
        /\ reader = "null" /\ ~timerOn /\ dest = dest0)

C7_Witness == runOutcome = "noRunId" /\ result = "failure" /\ pc = "returned"

\* C8: streamInitializeProject reports success only if the run was observed, by
\* the stream or the poll channel, to reach a terminal or effectively-terminal
\* state (terminal status, or closed connection).
C8_SuccessMeansObserved ==
  result = "success"
    => (termSeen # {} \/ spc = "ended" \/ endCause = "closed")

\* the outputDir a single reconciliation pass leaves
SinglePassResults ==
  {extractProjectFiles(r, dest0, local).fs : r \in MainRuns}
    \cup {extractFromOutputDirectory(dest0, local, TRUE, FALSE)}

\* C9: when both channels observed the scaffold step's success, the
\* reconciler's effect on outputDir is that of a single pass.
C9_SinglePass ==
  scaffoldSeen = {"stream", "poll"}
    => (/\ passes <= 1
        /\ dest \in {dest0} \cup SinglePassResults)

C9_Witness ==
  /\ scaffoldSeen = {"stream", "poll"} /\ passes = 1 /\ hasExtractedFiles
  /\ dest # dest0 /\ nPolls = 2 /\ ppc = "done"


IsPrefix(a, b) == Len(a) <= Len(b) /\ SubSeq(b, 1, Len(a)) = a

\* the events parsed when text t arrives as a single chunk
RECURSIVE DrainThrough(_)
DrainThrough(s) ==
  LET t == Drain(s)
  IN IF t.spc = "read" THEN t.parsed ELSE DrainThrough([t EXCEPT !.spc = "read"])
OneChunk(t) ==
  DrainThrough([buffer |-> t, fullText |-> <<>>, generatedFiles |-> <<>>,
                currentStep |-> "", workflowComplete |-> FALSE, spc |-> "read",
                pendingStep |-> NoStep, parsed |-> <<>>, succeeded |-> {},
                termSeen |-> {}, scaffoldSeen |-> {}, notes |-> <<>>,
                inputs |-> <<>>, reqs |-> {}])

\* C2: however the payload is cut into chunks (inside a frame, inside the
\* blank-line separator), the events parsed are those parsed when the payload
\* arrives as one chunk: a prefix of them while chunks are outstanding, all of
\* them once the stream has ended after the last chunk.
C2_ChunkingInvariant ==
  mode = "chunks"
    => (/\ IsPrefix(parsed, OneChunk(payload))
        /\ (spc = "ended" /\ wire = <<>>) => parsed = OneChunk(payload))

\* a cut fell inside the blank-line separator of a buffered frame, after an
\* earlier frame was parsed
C2_Witness ==
  /\ mode = "chunks" /\ Len(parsed) >= 1 /\ spc = "read"
  /\ Len(buffer) > 1 /\ buffer[Len(buffer)] = NL /\ IndexOf(buffer) < 0
  /\ wire # <<>> /\ Head(wire)[1] = NL
  /\ Len(OneChunk(payload)) > Len(parsed)

\* the files of the scaffold-named success steps that list some
ListedBy(rec) ==
  {rec.steps[i].files : i \in {j \in 1..Len(rec.steps) :
       /\ IncludesScaffold(rec.steps[j].id) /\ rec.steps[j].status = "success"
       /\ rec.steps[j].hasOutput /\ rec.steps[j].hasFiles
       /\ Len(rec.steps[j].files) > 0}}
ContentOf(f) == IF f.content = Undef THEN "" ELSE f.content
\* outputDir holds every listed file with its content, and no other new file
HoldsExactly(fl) ==
  /\ \A i \in 1..Len(fl) :
       IsFile(dest, Join(fl[i].path)) /\ dest.files[Join(fl[i].path)] = ContentOf(fl[i])
  /\ DOMAIN dest.files = (DOMAIN dest0.files) \cup {Join(fl[i].path) : i \in 1..Len(fl)}
  /\ \A p \in DOMAIN dest0.files :
       (\A i \in 1..Len(fl) : Join(fl[i].path) # p) => dest.files[p] = dest0.files[p]

\* C10 (as stated): when the run record has a scaffold step with status success
\* whose output.files is a non-empty list, extractProjectFiles leaves outputDir
\* with exactly one file per listed path, holding the listed content, and adds
\* nothing else.
C10_ExactlyListed ==
  (pc = "reconciled" /\ runData.ok /\ runData.hasSteps)
    => \A fl \in ListedBy(runData) : HoldsExactly(fl)

\* the list can be written as it stands: every path is non-empty and resolves
\* (path.join) to a place other than outputDir itself, no two resolve to the
\* same place, none is a directory of another, and there is no directory where
\* a file goes and no file where a directory is needed (outputDir included)
Writable(fl, fs) ==
  /\ ~WriteThrows(fs)
  /\ \A i \in 1..Len(fl) :
       /\ fl[i].path # <<>> /\ Join(fl[i].path) # <<>>
       /\ ~IsDir(fs, Join(fl[i].path))
       /\ \A q \in Prefixes(Join(fl[i].path)) :
            q # Join(fl[i].path) => ~IsFile(fs, q)
  /\ \A i, j \in 1..Len(fl) :
       i # j => /\ Join(fl[i].path) # Join(fl[j].path)
                /\ ~IsPrefix(Join(fl[i].path), Join(fl[j].path))

\* C10 (amended): when the first scaffold-named step with status success lists
\* a non-empty files list that can be written as it stands, extractProjectFiles
\* leaves exactly one file per listed path, at the place path.join(outputDir,
\* path) resolves to (outside outputDir when the path climbs out with ".."),
\* holding the listed content (an absent content giving an empty file), and
\* adds nothing else.
C10_ExactlyListedWhenWritable ==
  (pc = "reconciled" /\ runData.ok /\ runData.hasSteps)
    => LET first == FirstSuccessScaffold(runData.steps)
       IN (first # 0 /\ runData.steps[first].files \in ListedBy(runData)
            /\ Writable(runData.steps[first].files, dest0))
          => HoldsExactly(runData.steps[first].files)

\* two files, one of them in a sub-directory that had to be created
C10_Witness ==
  /\ pc = "reconciled" /\ runData.ok /\ runData.hasSteps
  /\ Len(runData.steps) = 1
  /\ runData.steps[1].files \in ListedBy(runData)
  /\ Writable(runData.steps[1].files, dest0)
  /\ Len(runData.steps[1].files) = 2
  /\ \E i \in 1..2 : Len(Join(runData.steps[1].files[i].path)) = 2
  /\ HoldsExactly(runData.steps[1].files)
  /\ dest0 = NoFS


\* ---------------------------------------------------------------------------
\* C11: a second run of the reconciler (extractProjectFiles, or
\* ensureProjectFilesExtracted) on the destination its first run left, with the
\* same run record and the same local directories, leaves every path and every
\* content of the destination as the first run left them.
C11_SecondRunChangesNothing ==
  [][((pc = "reconciled" /\ pc' = "reconciledAgain")
      \/ (pc = "ensured" /\ pc' = "ensuredAgain")) => dest' = dest]_vars
\* a second run finished on a destination the first run filled from a local
\* directory whose newest entry is an excluded one
C11_Witness ==
  /\ pc = "reconciledAgain" /\ dest0 = NoFS /\ local = LocalNewestExcluded
  /\ attempts = <<"lookup", "fallback", "returned">>
  /\ <<"src", "index.ts">> \in DOMAIN dest.files


\* ---------------------------------------------------------------------------
\* the exclusion list as the specification gives it
ExclusionList == {"playground", "assets", "node_modules", "output", ".git", ".mastra"}
\* the contents of the files of a tree that lie under a directory of the tree
\* named in the exclusion list
RECURSIVE ContentsBelow(_, _)
ContentsBelow(node, hidden) ==
  IF node.t = "f" THEN (IF hidden THEN {node.c} ELSE {})
  ELSE UNION {ContentsBelow(node.e[n],
                            hidden \/ (node.e[n].t = "d" /\ n \in ExclusionList)) :
                n \in DOMAIN node.e}
\* the candidate directories the directory search selects, in either order
ScannedTrees(loc) ==
  {CandidateNode(loc, PotentialPaths(alt)[FirstSuitable(loc, PotentialPaths(alt))]) :
     alt \in {a \in BOOLEAN : FirstSuitable(loc, PotentialPaths(a)) # 0}}
FilesDone == {"reconciled", "reconciledAgain", "ensured", "ensuredAgain"}

\* C12: no file lying under a directory of the scanned source tree whose name
\* is in the exclusion list is copied to the destination, whatever its
\* extension (the files under such directories carry contents of their own).
C12_ExcludedNeverCopied ==
  pc \in FilesDone =>
    \A t \in ScannedTrees(local) : \A p \in DOMAIN dest.files :
      dest.files[p] \notin ContentsBelow(t, FALSE)
\* the directory search copied a project out of a candidate whose newest
\* directory is an excluded one holding project files
C12_Witness ==
  /\ pc = "reconciled" /\ attempts = <<"lookup", "fallback", "returned">>
  /\ local = LocalNewestExcluded /\ dest0 = NoFS
  /\ "h" \in UNION {ContentsBelow(t, FALSE) : t \in ScannedTrees(local)}
  /\ <<"package.json">> \in DOMAIN dest.files


\* ---------------------------------------------------------------------------
\* C13: writeFilesToDirectory writes no file outside the destination
\* directory, whatever the paths of the files list it is handed.
C13_NothingWrittenOutside ==
  pc = "reconciled" => \A p \in DOMAIN dest.files : ~IsOutside(p)


\* ---------------------------------------------------------------------------
\* the structured lookup failed: the request threw, or the record is malformed
\* (no steps, or no step with a files list)
LookupFailed(rec) ==
  \/ ~rec.ok \/ ~rec.hasSteps
  \/ \A i \in 1..Len(rec.steps) : ~(rec.steps[i].hasOutput /\ rec.steps[i].hasFiles)
FollowedBy(seq, a, bs) ==
  \A i \in 1..Len(seq) :
    seq[i] = a => \E j \in (i + 1)..Len(seq) : seq[j] \in bs

ReportsText ==
  /\ notes' # <<>>
  /\ notes'[Len(notes')].ch = "progress"
  /\ notes'[Len(notes')].text = fullText'
\* a poll request resolved (with or without data) and was not rejected
PollResolved ==
  /\ ppc = "inflight" /\ ppc' # "inflight"
  /\ \A i \in 1..Len(inputs') : inputs'[i].type # "error"
  /\ ~stopCalled'

TextChangeReported ==
  (mode = "stream" /\ fullText' # fullText /\ spc' = "read") => ReportsText

\* C15: in streamInitializeProject every change of the accumulated text is
\* reported: when the handling of a frame that appended to the text is through
\* (the loop is back at its read), onProgress has been called with the updated
\* text; and every poll that resolved called onStatusUpdate once.
C15_EveryTextChangeReported ==
  [][/\ TextChangeReported
     /\ (mode = "stream" /\ PollResolved) =>
          Len(SelectSeq(notes', LAMBDA n : n.ch = "status")) = 1]_vars


\* ---------------------------------------------------------------------------
\* the poll request just handled was rejected, with error code err
PollFailedWith(err) ==
  /\ ppc = "inflight" /\ ppc' # "inflight"
  /\ inputs' = <<[type |-> "error", stepId |-> NoStep, status |-> err]>>
PollFailed == \E err \in PollErrors : PollFailedWith(err)
\* the poll request just handled resolved with a snapshot
PollReturnedData ==
  /\ ppc = "inflight" /\ ppc' # "inflight"
  /\ inputs' # <<>> /\ inputs'[1].type = "snapshot"
\* the failure just handled ends the session: at once, or after the
\* reconciliation it awaits
FailureEndsSession == ~isMonitoring' \/ ppc' = "x3"
ClosedCodes == {"ECONNRESET", "ECONNREFUSED", "ECONNABORTED"}

\* C16 (as stated): every poll that resolved resets consecutiveErrors to zero,
\* every failure adds one to it, and a failure ends the session exactly when
\* it brings the counter to maxRetries.
C16_EndsExactlyAtMaxRetries ==
  [][/\ (PollResolved \/ PollReturnedData) => consecutiveErrors' = 0
     /\ PollFailed => consecutiveErrors' = consecutiveErrors + 1
     /\ (PollFailed /\ ~stopCalled) =>
          (FailureEndsSession <=> consecutiveErrors' = maxRetries)]_vars

\* C16 (amended): consecutiveErrors is reset to zero by every poll that
\* returns data, is increased by one by every failed poll and changes at no
\* other time; a failure whose code is not a connection-closed one ends the
\* session exactly when it brings the counter to maxRetries; a failure with a
\* connection-closed code ends it whatever the counter.
C16_CounterAndTwoEndings ==
  [][/\ PollReturnedData => consecutiveErrors' = 0
     /\ PollFailed => consecutiveErrors' = consecutiveErrors + 1
     /\ (~PollReturnedData /\ ~PollFailed) => consecutiveErrors' = consecutiveErrors
     /\ \A err \in PollErrors :
          (PollFailedWith(err) /\ ~stopCalled) =>
            IF err \in ClosedCodes THEN FailureEndsSession
            ELSE /\ FailureEndsSession <=> consecutiveErrors' = maxRetries
                 /\ FailureEndsSession => endCause' = "retries"]_vars
\* the default maxRetries: a failure, a poll with data, then three failures
C16_Witness ==
  /\ mode = "monitor" /\ maxRetries = DefaultMaxRetries
  /\ endCause = "retries" /\ ~isMonitoring /\ ppc = "done"
  /\ consecutiveErrors = maxRetries /\ nPolls = 4


\* ---------------------------------------------------------------------------
\* C17: when the poll session of streamInitializeProject ends because the
\* consecutive failures reached maxRetries, the step that ends it leaves the
\* stream channel as it was (reader, buffer, text, file list, position), and
\* from then on the stream loop still takes what the stream delivers whenever
\* it is at its read.
C17_RetriesEndPollLoopOnly ==
  /\ [][(mode = "stream" /\ endCause # "retries" /\ endCause' = "retries")
         => /\ ~isMonitoring' /\ ppc' = "done"
            /\ UNCHANGED <<pc, result, streamVars>>]_vars
  /\ []((mode = "stream" /\ endCause = "retries" /\ pc = "stream"
          /\ spc = "read" /\ Len(payload) < MaxFrames * FrameLen)
         => Deliverable # {})
\* a frame has just been handled by the stream loop after the poll session
\* ended on its third consecutive failure
C17_Witness ==
  /\ mode = "stream" /\ endCause = "retries" /\ consecutiveErrors = 3
  /\ pc = "stream" /\ reader = "open"
  /\ inputs # <<>> /\ inputs[1].type = "step" /\ fullText # <<>>


\* ---------------------------------------------------------------------------
\* C18: within one monitorWorkflowStatus session a poll request is issued only
\* when no request is in flight and no handling (reconciliation included) is
\* pending, and the next poll is scheduled only by the step that ends the
\* handling of the current one; so at most one request is in flight, whatever
\* happens between a request and its answer.
C18_OnePollAtATime ==
  [][/\ "poll" \in reqs' =>
          /\ ppc \in {"off", "start", "scheduled"}
          /\ ppc' = "inflight" /\ nPolls' = nPolls + 1
     /\ (ppc' = "scheduled" /\ ppc # "scheduled") =>
          /\ ppc \in {"inflight", "x1"}
          /\ isMonitoring' /\ reqs' = {} /\ workflowData' = NoSnap]_vars
\* the third request is in flight, after a poll whose handling awaited a
\* reconciliation pass
C18_Witness ==
  /\ mode = "monitor" /\ ppc = "inflight" /\ nPolls = 3 /\ passes >= 1
  /\ isMonitoring /\ hasExtractedFiles


\* ---------------------------------------------------------------------------
\* C19: hasExtractedFiles is true only when a reconciliation pass has left
\* outputDir non-empty; so as long as outputDir is empty, a snapshot that
\* shows the workflow complete, and a failure that ends the session, each
\* start a pass.
C19_FlagGuardsBySuccess ==
  /\ [](hasExtractedFiles => NonEmpty(dest))
  /\ [][(~NonEmpty(dest) /\ ~stopCalled
          /\ (\/ PollReturnedData /\ isWorkflowComplete(notes'[1].snap)
              \/ PollFailed /\ FailureEndsSession))
         => passes' = passes + 1]_vars


\* ---------------------------------------------------------------------------
\* the frames of a payload made of whole frames
RECURSIVE FramesOf(_)
FramesOf(t) ==
  IF IndexOf(t) < 0 THEN <<>>
  ELSE <<Slice(t, 0, IndexOf(t) + 2)>> \o FramesOf(SliceFrom(t, IndexOf(t) + 2))
\* the payload without its frames that cannot be decoded
WellFormedOnly(t) ==
  Concat(SelectSeq(FramesOf(t), LAMBDA f : f \notin BadFrames))
\* the events the loop has dispatched: those of a type it knows
Dispatched(evs) == SelectSeq(evs, LAMBDA ev : ev.type \in {"step", "status"})

\* C20: a frame that cannot be decoded (text that is not JSON, no "data: "
\* prefix, unknown type) is skipped: the step that reads it leaves the text,
\* the file list and the loop's position as they were and calls nothing, and
\* the events dispatched are those of the payload without such frames, all of
\* them once the stream has ended.
C20_BadFrameSkipped ==
  /\ [](/\ IsPrefix(Dispatched(parsed), OneChunk(WellFormedOnly(payload)))
        /\ (spc = "ended" /\ wire = <<>>) =>
             Dispatched(parsed) = OneChunk(WellFormedOnly(payload)))
  /\ [][(wire # <<>> /\ wire' = Tail(wire) /\ Head(wire) \in BadFrames)
         => /\ UNCHANGED <<fullText, generatedFiles, currentStep, pc, spc>>
            /\ notes' = <<>> /\ reqs' = {}
            /\ Dispatched(parsed') = Dispatched(parsed)]_vars
\* the stream ended after a frame that is not JSON and a step frame behind it,
\* which was dispatched
C20_Witness ==
  /\ spc = "ended" /\ wire = <<>>
  /\ FramesOf(payload) = <<DataPrefix \o <<"{", "x", NL, NL>>, Frame("r")>>
  /\ Dispatched(parsed) = <<Decode["r"]>>
  /\ fullText = <<Piece("Running", "scaffoldProject")>>


\* ---------------------------------------------------------------------------
\* C21: whatever the watch request comes to (a reader, a timeout, a non-2xx
\* answer, no body), streamInitializeProject does not fail on it: the step
\* that settles the race leaves the result open and the poll session as it
\* was, without a reader the call is in polling-only mode, and from there it
\* can only return success.
C21_WatchFailureIsNotFatal ==
  [][/\ (pc = "watchRace" /\ pc' # "watchRace") =>
          /\ pc' \in {"stream", "pollingOnly"}
          /\ (pc' = "pollingOnly") <=> (reader' = "null")
          /\ result' = "none"
          /\ UNCHANGED <<isMonitoring, ppc, nPolls, consecutiveErrors>>
     /\ (pc = "pollingOnly" /\ pc' # "pollingOnly") =>
          (pc' = "returned" /\ result' = "success")]_vars
\* polling-only mode: the second poll of the backup session has just been
\* answered with a snapshot
C21_Witness ==
  /\ mode = "stream" /\ pc = "pollingOnly" /\ reader = "null"
  /\ nPolls = 2 /\ isMonitoring /\ result = "none"
  /\ notes # <<>> /\ notes[1].ch = "status"


\* ---------------------------------------------------------------------------
\* the scaffold-named steps of a run record that provide files
ProvidesFiles(rec) ==
  {i \in 1..Len(rec.steps) :
     /\ IncludesScaffold(rec.steps[i].id)
     /\ rec.steps[i].hasOutput /\ rec.steps[i].hasFiles
     /\ Len(rec.steps[i].files) > 0}
Attempted(a) == \E i \in 1..Len(attempts) : attempts[i] = a

\* C22: in extractProjectFiles the files of a scaffold-named step are written
\* whenever a scaffold-named step of the run record provides files, one with
\* status success first; the directory search is used only when no
\* scaffold-named step provides files.
C22_FallbackOnlyWithoutFiles ==
  (pc = "reconciled" /\ runData.ok /\ runData.hasSteps /\ ~WriteThrows(dest0))
    => /\ ProvidesFiles(runData) # {} => Attempted("write")
       /\ Attempted("fallback") => ProvidesFiles(runData) = {}
       /\ \A i \in ProvidesFiles(runData) :
            (runData.steps[i].status = "success"
             /\ \A j \in ProvidesFiles(runData) :
                  runData.steps[j].status = "success" => i <= j
             /\ Writable(runData.steps[i].files, dest0))
            => HoldsExactly(runData.steps[i].files)


\* ---------------------------------------------------------------------------
\* C23: the file-check timer of streamInitializeProject starts a check (one
\* run-record request, no callback) only while it is armed and workflowComplete
\* is set, so a check is pending only when workflowComplete is set; a check
\* that finds files reports them once and disarms the timer, and a disarmed
\* timer is never armed again and starts no further check.
C23_TimerIdleUntilComplete ==
  /\ [](ticking > 0 => workflowComplete)
  /\ [][/\ ticking' > ticking =>
              /\ timerOn /\ workflowComplete
              /\ reqs' = {"runs"} /\ notes' = <<>>
        /\ (ticking' < ticking /\ notes' # <<>>) =>
              /\ ~timerOn' /\ Len(notes') = 1
              /\ Len(notes'[1].files) > 0
        /\ (pc = "stream" /\ ~timerOn) => (~timerOn' /\ ticking' <= ticking)
       ]_vars
C23_Witness ==
  /\ pc = "stream" /\ workflowComplete /\ ~timerOn /\ ticking = 0
  /\ Len(notes) = 1 /\ Len(notes[1].files) > 0 /\ reqs = {}


\* ---------------------------------------------------------------------------
\* C24: from a point of a monitorWorkflowStatus session after which every poll
\* request fails, at most maxRetries polls are started, the session comes to
\* rest with isMonitoring false and no poll scheduled, and once isMonitoring
\* is false it stays false and no poll request is started.
C24_FailuresEndSession ==
  /\ [](nPolls <= maxRetries)
  /\ <>[](~isMonitoring /\ ppc = "done")
  /\ [][~isMonitoring =>
          (~isMonitoring' /\ nPolls' = nPolls /\ "poll" \notin reqs')]_vars
\* maxRetries polls were needed, every one failing with another error than a
\* closed connection
C24_Witness ==
  /\ maxRetries = DefaultMaxRetries /\ nPolls = maxRetries
  /\ ~isMonitoring /\ ppc = "done" /\ endCause = "retries" /\ ~stopCalled


\* ---------------------------------------------------------------------------
\* C25: a monitorWorkflowStatus session starts at most one top-level
\* reconciliation (extractProjectFiles, or extractFromOutputDirectory called
\* from the maxRetries branch), whatever the polls return and whenever stop
\* is called: it is started by the handling of a poll result, while
\* hasExtractedFiles is false and none was started before.
C25_AtMostOneReconciliation ==
  /\ [](passes <= 1)
  /\ [][passes' # passes =>
          /\ passes = 0 /\ passes' = 1
          /\ ppc = "inflight" /\ ~hasExtractedFiles]_vars
\* reconciled on the scaffold step's success; two more polls, the last one
\* showing a terminal status, start no second reconciliation
C25_Witness ==
  /\ mode = "monitor" /\ passes = 1 /\ hasExtractedFiles
  /\ nPolls >= 3 /\ endCause = "terminal" /\ ppc = "done"
  /\ scaffoldSeen = {"poll"} /\ termSeen = {"poll"}


\* ---------------------------------------------------------------------------
HasProgress(ns) == \E i \in 1..Len(ns) : ns[i].ch = "progress"

\* C26: once streamInitializeProject has returned, no step makes an onProgress
\* call: neither a file-check timer callback whose run-record request was
\* still pending at the return, nor the background poll.
C26_NoProgressAfterReturn ==
  [][pc = "returned" => ~HasProgress(notes')]_vars


\* ---------------------------------------------------------------------------
\* C27: in a monitorWorkflowStatus session isMonitoring never goes from false
\* to true, whatever made it false (terminal status, closed connection,
\* maxRetries, stop), and a poll request is started only while it is true.
C27_MonitoringIsMonotonic ==
  [][/\ ~isMonitoring => ~isMonitoring'
     /\ ("poll" \in reqs' \/ nPolls' # nPolls) => (isMonitoring /\ isMonitoring')
    ]_vars
\* stop was called between two polls: the scheduled entry of poll found
\* isMonitoring false and returned
C27_Witness ==
  /\ mode = "monitor" /\ stopCalled /\ ~inFlightAtStop /\ ~isMonitoring
  /\ ppc = "done" /\ endCause = "none" /\ nPolls >= 1 /\ reqs = {}


\* ---------------------------------------------------------------------------
\* C28: in every state of a monitorWorkflowStatus session the count of
\* consecutive failures lies between 0 and maxRetries, where maxRetries is the
\* option given, or 3 when the option is 0 or missing.
C28_CounterWithinMaxRetries ==
  /\ maxRetries \in (1..MaxRetriesOpt) \cup {DefaultMaxRetries}
  /\ 0 <= consecutiveErrors /\ consecutiveErrors <= maxRetries
\* the counter at its ceiling, brought there by a request that was in flight
\* when stop was called
C28_Witness ==
  /\ mode = "monitor" /\ maxRetries = 2 /\ consecutiveErrors = maxRetries
  /\ stopCalled /\ inFlightAtStop /\ ppc = "done" /\ endCause = "retries"


\* ---------------------------------------------------------------------------
ProgressTexts(ns) ==
  LET ps == SelectSeq(ns, LAMBDA n : n.ch = "progress")
  IN [i \in 1..Len(ps) |-> ps[i].text]

\* C29: the progress text of streamInitializeProject only grows at its end:
\* every step extends fullText, each text it hands to onProgress extends the
\* text before the step and the texts it handed over earlier and is extended
\* by the text after the step, and the text is left alone once the call has
\* returned, so the returned text extends every text reported.
C29_TextAppendOnly ==
  [][/\ IsPrefix(fullText, fullText')
     /\ \A i \in 1..Len(ProgressTexts(notes')) :
          /\ IsPrefix(fullText, ProgressTexts(notes')[i])
          /\ IsPrefix(ProgressTexts(notes')[i], fullText')
          /\ \A j \in 1..i :
               IsPrefix(ProgressTexts(notes')[j], ProgressTexts(notes')[i])
     /\ pc = "returned" => fullText' = fullText]_vars
\* "Running step" was reported, then the step's success added two pieces and
\* the longer text was reported
C29_Witness ==
  /\ FramesOf(payload) = <<Frame("r"), Frame("s")>>
  /\ spc = "filesScaffold" /\ Len(notes) = 1 /\ notes[1].text = fullText
  /\ Len(fullText) = 3 /\ fullText[1] = Piece("Running", "scaffoldProject")


\* ---------------------------------------------------------------------------
\* the candidate the directory search of a first reconciliation selects
SelectedIndex == FirstSuitable(local, PotentialPaths(FALSE))
SelectedPath == PotentialPaths(FALSE)[SelectedIndex]
SelectedRoot == CandidateNode(local, SelectedPath)
SelectedDirs == Directories(SelectedRoot, TRUE)
\* the directory search ran and selected a candidate named ".mastra" or "output"
SearchedExcludedRoot ==
  /\ pc = "reconciled" /\ Attempted("fallback")
  /\ SelectedIndex # 0 /\ Basename(SelectedPath) \in {".mastra", "output"}
\* ... and copied from the candidate itself: its files lie directly in it, or
\* no directory of it is a complete project and the parent check applies
CopiedFromRoot ==
  \/ SelectedDirs = <<>>
  \/ /\ ~CompleteProject(SelectedRoot, SelectedDirs, EnsureDir(dest0, <<>>).fs).done
     /\ \E i \in 1..Len(SelectedDirs) : SelectedDirs[i] = "undefined-project"
     /\ \E n \in DOMAIN SelectedRoot.e : n \in MarkerFiles \cup ParentMarkers
\* the files lying directly in outputDir
TopFiles(fs) == {p \in DOMAIN fs.files : Len(p) = 1}

====
